---- MODULE Spec2Model ----
(***************************************************************************)
(* Supply-Chain-Sanitizer: the batch ingestion pipeline of src/App.tsx.    *)
(*                                                                         *)
(* The React component is modelled as a state machine.  Every synchronous  *)
(* stretch of a handler (from one `await` to the next) is one atomic       *)
(* action, because the browser event loop runs it to completion and React  *)
(* commits the batched state updates before any other event is handled.    *)
(* An async function keeps the values its closure captured when it was     *)
(* called (files, sessionHistory); functional updates (prev => ...) read   *)
(* the current state.  The two setTimeout progress messages of a           *)
(* single-file run replace only processingState.message; they are left out *)
(* of the pipeline specification and are in SpecProgress.                  *)
(*                                                                         *)
(* Amounts are in thousandths of a currency unit, so 0.01 is 10.           *)
(***************************************************************************)
EXTENDS Integers, Sequences, FiniteSets, TLC

\* ---------------------------------------------------------------- bounds
\* Files in one batch (FileUpload itself allows MAX_FILES).
MaxBatch == 2
\* Records created in one session (crypto.randomUUID() calls).
MaxIds == 3
\* Async invocations (handleSanitize, handleLoadExample) in flight at once.
MaxTasks == 2
\* handleSanitize and handleLoadExample invocations that reach an await, in
\* one session.
MaxStarts == 2
\* Records created in one session of the translation specification.
MaxRecords == 2
\* translateLineItems calls made in one session.
MaxCalls == 3
\* handleInvoiceChange calls made in one session.
MaxEdits == 1
\* Category corrections made in one session.
MaxCorrections == 3

\* ---------------------------------------------------- program constants
\* FileUpload: const MAX_FILES = 5
MAX_FILES == 5
\* handleSanitize: setRetryCountdown(60)
RETRY_SECONDS == 60
\* isDuplicateInHistory: Math.abs(a - b) < 0.01, in thousandths
AMOUNT_TOLERANCE == 10

VARIABLES
    files,            \* useState<File[]>: the files, named by their position
    invoiceData,      \* useState<InvoiceData | null>: the active record
    sessionHistory,   \* useState<InvoiceData[]>: newest first
    processingState,  \* useState<ProcessingState>: status, message, errorCode
    retryCountdown,   \* useState<number>
    duplicateWarning, \* useState<{show, invoice}>
    runs,             \* handleSanitize invocations suspended at an await
    loads,            \* handleLoadExample invocations suspended at an await
    nextId,           \* number of records created so far
    started,          \* number of invocations that reached an await so far
    targetLanguage,   \* useState<string>('English')
    isTranslating,    \* useState(false)
    translations,     \* translateLineItems calls suspended at their await
    edits,            \* number of handleInvoiceChange calls so far
    targetCurrency,   \* useState<string>('Original')
    timers,           \* pending setTimeout callbacks of the progress messages
    learned,          \* localStorage 'ester_learned_corrections', in key order
    input,            \* argument of the pure function under check
    output            \* its result in a one-element sequence, empty before

\* The variables of the batch pipeline.
pipeline == << files, invoiceData, sessionHistory, processingState, retryCountdown,
              duplicateWarning, runs, loads, nextId, started >>

\* The variables of the translation effect and of the pure-function checks.
\* The pipeline specification leaves them alone: what handleLoadExample and
\* handleHistorySelect do to targetLanguage is in the translation
\* specification.
aside == << targetLanguage, isTranslating, translations, edits, targetCurrency, timers,
           learned, input, output >>

vars == << pipeline, aside >>

\* ------------------------------------------------------------ data model
\* The letters, for String.prototype.toLowerCase.
UpperCase == <<"A", "B", "C", "D", "E", "F", "G", "H", "I", "J", "K", "L", "M">> \o
             <<"N", "O", "P", "Q", "R", "S", "T", "U", "V", "W", "X", "Y", "Z">>
LowerCase == <<"a", "b", "c", "d", "e", "f", "g", "h", "i", "j", "k", "l", "m">> \o
             <<"n", "o", "p", "q", "r", "s", "t", "u", "v", "w", "x", "y", "z">>

\* String.prototype.toLowerCase on one character.
LowerChar(c) ==
    IF \E k \in 1..Len(UpperCase) : UpperCase[k] = c
    THEN LowerCase[CHOOSE k \in 1..Len(UpperCase) : UpperCase[k] = c]
    ELSE c

toLowerCase(s) == [k \in 1..Len(s) |-> LowerChar(s[k])]

IsSpace(c) == c = " "

RECURSIVE trimStart(_)
trimStart(s) ==
    IF s # << >> /\ IsSpace(Head(s)) THEN trimStart(Tail(s)) ELSE s

RECURSIVE trimEnd(_)
trimEnd(s) ==
    IF s # << >> /\ IsSpace(s[Len(s)]) THEN trimEnd(SubSeq(s, 1, Len(s) - 1)) ELSE s

\* String.prototype.trim
trim(s) == trimEnd(trimStart(s))

Abs(x) == IF x < 0 THEN -x ELSE x

\* null
NoInvoice ==
    [id |-> 0, forced |-> FALSE, vendorName |-> << >>,
     invoiceDate |-> "", totalAmount |-> 0, language |-> ""]

\* EXAMPLES of utils/exampleData.ts (vendor names shortened to one word).
EXAMPLES(key) ==
    CASE key = "receipt" ->
           [vendorName |-> <<"T", "e", "c", "h">>, invoiceDate |-> "today",
            totalAmount |-> 42500, language |-> "English"]
      [] key = "multilang" ->
           [vendorName |-> <<"K", "y", "o", "t", "o">>, invoiceDate |-> "2023-11-15",
            totalAmount |-> 154000000, language |-> "Japanese"]
      [] key = "multicurrency" ->
           [vendorName |-> <<"G", "r", "a", "n", "d">>, invoiceDate |-> "2024-02-10",
            totalAmount |-> 450000, language |-> "English"]

\* The example buttons pressed in the model.
ExampleKeys == {"receipt"}

\* What the extraction collaborator may return for a file: any of these.
\* The second is within 0.01 of the receipt example and differs from it in
\* case and padding.
ExtractionResults ==
    { [vendorName |-> <<"A", "c", "m", "e">>, invoiceDate |-> "2024-01-01",
       totalAmount |-> 100000],
      [vendorName |-> <<" ", "t", "E", "C", "H", " ">>, invoiceDate |-> "today",
       totalAmount |-> 42505] }

\* error.code of a rejected extraction; "none" is an error without a code.
ErrorCodes == {"QUOTA_EXCEEDED", "READ_ERROR", "INVALID_FILE", "GENERIC", "none"}

\* A ProcessingState object.  consumed is history written by the catch block
\* of handleSanitize: the positions of the files whose records the run that
\* met the quota error had appended.
State(status, message, errorCode) ==
    [status |-> status, message |-> message, errorCode |-> errorCode, consumed |-> {}]

Idle == State("idle", "none", "none")
Complete == State("complete", "none", "none")

NoWarning == [show |-> FALSE, invoice |-> NoInvoice]

Init ==
    /\ files = << >>
    /\ invoiceData = NoInvoice
    /\ sessionHistory = << >>
    /\ processingState = Idle
    /\ retryCountdown = 0
    /\ duplicateWarning = NoWarning
    /\ runs = << >>
    /\ loads = << >>
    /\ nextId = 0
    /\ started = 0
    /\ targetLanguage = "English"
    /\ isTranslating = FALSE
    /\ translations = << >>
    /\ edits = 0
    /\ input = << >>
    /\ targetCurrency = "Original"
    /\ timers = << >>
    /\ learned = << >>
    /\ output = << >>


Status == processingState.status

Tasks == Len(runs) + Len(loads)

RemoveAt(s, k) == [j \in 1..(Len(s) - 1) |-> IF j < k THEN s[j] ELSE s[j + 1]]

\* -------------------------------------------------------- duplicate check
\* IsDuplicate with the vendor names compared as they are.
IsDuplicateExact(inv, d) ==
    /\ inv.vendorName = d.vendorName
    /\ inv.invoiceDate = d.invoiceDate
    /\ Abs(inv.totalAmount - d.totalAmount) < AMOUNT_TOLERANCE

\* IsDuplicate with the signed difference of the totals.
IsDuplicateSigned(inv, d) ==
    /\ trim(toLowerCase(inv.vendorName)) = trim(toLowerCase(d.vendorName))
    /\ inv.invoiceDate = d.invoiceDate
    /\ inv.totalAmount - d.totalAmount < AMOUNT_TOLERANCE

\* The callback of sessionHistory.some(...) in handleSanitize.
IsDuplicate(inv, d) ==
    LET vendorMatch == trim(toLowerCase(inv.vendorName)) = trim(toLowerCase(d.vendorName))
        dateMatch == inv.invoiceDate = d.invoiceDate
        amountMatch == Abs(inv.totalAmount - d.totalAmount) < AMOUNT_TOLERANCE
    IN  vendorMatch /\ dateMatch /\ amountMatch

isDuplicateInHistory(hist, d) == \E k \in 1..Len(hist) : IsDuplicate(hist[k], d)

\* ------------------------------------------------------------- the views
\* const currentView = invoiceData ? 'editor' : ... ? 'processing' : 'home'
currentView ==
    IF invoiceData # NoInvoice THEN "editor"
    ELSE IF Status \in {"processing", "quota_cooldown"} THEN "processing"
    ELSE "home"

\* disabled prop handed to FileUpload
UploadDisabled == Status \in {"processing", "quota_cooldown"}

\* render condition of the Sanitize button
SanitizeButtonShown ==
    /\ Len(files) > 0
    /\ (invoiceData = NoInvoice \/ Status = "idle")
    /\ Status # "processing"
    /\ Status # "quota_cooldown"

\* render condition of the duplicate modal
DuplicateModalShown == duplicateWarning.show /\ duplicateWarning.invoice # NoInvoice


\* ------------------------------------------------------- handleSanitize
\* A handleSanitize invocation suspended at an await.  files and hist are the
\* values its closure captured, i is the loop index (from 1) and pc the await
\* it is suspended at.  The other fields are history: log[j] is the id of the
\* record appended for file j, or 0 when file j was flagged as a duplicate;
\* cleared, that the history was cleared during the run; consumed, for a run
\* the cooldown effect started, the files whose records the run that met the
\* quota error had appended.
NewRun(origin) ==
    [files |-> files, hist |-> sessionHistory, i |-> 1, pc |-> "extract",
     log |-> << >>, cleared |-> FALSE,
     consumed |-> IF origin = "cooldown" THEN processingState.consumed ELSE {}]

\* The message handleSanitize shows when it enters a loop iteration over fs:
\* the batch message when files.length > 1, else the message is left alone.
LoopMessage(fs, ps) ==
    IF Len(fs) > 1 THEN [ps EXCEPT !.message = "processingBatch"] ELSE ps

\* handleSanitize() from its first line to the first await: it returns at once
\* on an empty file list, else sets the processing state and calls
\* extractInvoiceData(files[0]).
Invoke(origin) ==
    IF Len(files) = 0
    THEN UNCHANGED << processingState, runs, started >>
    ELSE /\ Tasks < MaxTasks
         /\ started < MaxStarts
         /\ processingState' =
              LoopMessage(files, State("processing", "processing", "none"))
         /\ runs' = Append(runs, NewRun(origin))
         /\ started' = started + 1

\* The Sanitize button.
SanitizeClick ==
    /\ SanitizeButtonShown
    /\ Invoke("click")
    /\ UNCHANGED << files, invoiceData, sessionHistory, retryCountdown, duplicateWarning,
                    loads, nextId >>
    /\ UNCHANGED aside

\* The "try again" button of the error panel.
RetryClick ==
    /\ Status = "error"
    /\ Invoke("retry")
    /\ UNCHANGED << files, invoiceData, sessionHistory, retryCountdown, duplicateWarning,
                    loads, nextId >>
    /\ UNCHANGED aside

\* const dataWithId = { ...data, id: crypto.randomUUID(), language: 'Original', ... }
Stamp(data) ==
    [id |-> nextId + 1, forced |-> FALSE, vendorName |-> data.vendorName,
     invoiceDate |-> data.invoiceDate, totalAmount |-> data.totalAmount,
     language |-> "Original"]

\* if (i === files.length - 1) setInvoiceData(dataWithId)
ActiveAfterAppend(run, d, active) == IF run.i = Len(run.files) THEN d ELSE active

\* The statements after the loop: complete, countdown 0, files cleared.
LoopExit ==
    /\ processingState' = Complete
    /\ retryCountdown' = 0
    /\ files' = << >>

\* The run after the iteration that produced record d.
Logged(run, dup, d) == [run EXCEPT !.log = Append(run.log, IF dup THEN 0 ELSE d.id)]

\* What the loop does with run r once its iteration is over without an await
\* pending: the statements after the loop when that was the last file, else the
\* next iteration up to its extraction call.  ps is the processing state the
\* iteration leaves.
Continue(r, after, ps) ==
    IF after.i = Len(after.files)
    THEN /\ LoopExit
         /\ runs' = RemoveAt(runs, r)
    ELSE /\ processingState' = LoopMessage(after.files, ps)
         /\ runs' = [runs EXCEPT ![r] = [after EXCEPT !.i = after.i + 1]]
         /\ UNCHANGED << retryCountdown, files >>

\* The duplicate branch: warn, set complete, continue with the next file.
Flag(r, after, d) ==
    /\ duplicateWarning' = [show |-> TRUE, invoice |-> d]
    /\ Continue(r, after, Complete)
    /\ UNCHANGED << sessionHistory, invoiceData >>

\* Add with the record put at the end of the history ([...prev, dataWithId]).
AddAtEnd(r, after, d) ==
    /\ sessionHistory' = Append(sessionHistory, d)
    /\ invoiceData' = ActiveAfterAppend(after, d, invoiceData)
    /\ IF after.i = Len(after.files)
       THEN Continue(r, after, processingState)
       ELSE /\ runs' = [runs EXCEPT ![r] = [after EXCEPT !.pc = "delay"]]
            /\ UNCHANGED << processingState, retryCountdown, files >>
    /\ UNCHANGED duplicateWarning

\* The other branch: prepend to the history, make the record of the last file
\* the active one, and wait 2 s unless this was the last file.
Add(r, after, d) ==
    /\ sessionHistory' = << d >> \o sessionHistory
    /\ invoiceData' = ActiveAfterAppend(after, d, invoiceData)
    /\ IF after.i = Len(after.files)
       THEN Continue(r, after, processingState)
       ELSE /\ runs' = [runs EXCEPT ![r] = [after EXCEPT !.pc = "delay"]]
            /\ UNCHANGED << processingState, retryCountdown, files >>
    /\ UNCHANGED duplicateWarning

\* extractInvoiceData(files[i]) resolves with `data` for run r.
ExtractResolve(r, data) ==
    /\ r \in 1..Len(runs)
    /\ runs[r].pc = "extract"
    /\ nextId < MaxIds
    /\ LET d == Stamp(data)
           dup == isDuplicateInHistory(runs[r].hist, d)
       IN  IF dup THEN Flag(r, Logged(runs[r], dup, d), d)
                  ELSE Add(r, Logged(runs[r], dup, d), d)
    /\ nextId' = nextId + 1
    /\ UNCHANGED << loads, started >>
    /\ UNCHANGED aside

\* The 2 s delay between batch items is over: next iteration, next extraction.
DelayResolve(r) ==
    /\ r \in 1..Len(runs)
    /\ runs[r].pc = "delay"
    /\ processingState' = LoopMessage(runs[r].files, processingState)
    /\ runs' = [runs EXCEPT ![r] = [@ EXCEPT !.i = @ + 1, !.pc = "extract"]]
    /\ UNCHANGED << files, invoiceData, sessionHistory, retryCountdown, duplicateWarning,
                    loads, nextId, started >>
    /\ UNCHANGED aside

\* const code = error.code || 'GENERIC'
CodeOf(errorCode) == IF errorCode = "none" THEN "GENERIC" ELSE errorCode

\* The message chosen in the catch block.
MessageOf(code) ==
    CASE code = "QUOTA_EXCEEDED" -> "quotaError"
      [] code = "READ_ERROR" -> "readError"
      [] code = "INVALID_FILE" -> "fileTypeError"
      [] OTHER -> "uploadError"

\* The positions of the files whose records run has appended.
Appended(run) == {j \in 1..Len(run.log) : run.log[j] # 0}

\* The catch block: the processing state it sets for `code`.
CatchState(code, run) ==
    [status |-> IF code = "QUOTA_EXCEEDED" THEN "quota_cooldown" ELSE "error",
     message |-> MessageOf(code), errorCode |-> code,
     consumed |-> IF code = "QUOTA_EXCEEDED" THEN Appended(run) ELSE {}]

\* CatchCountdown with the setRetryCountdown(60) call forgotten.
CatchCountdownKept(code, count) == count

\* The catch block: the countdown it leaves.
CatchCountdown(code, count) == IF code = "QUOTA_EXCEEDED" THEN RETRY_SECONDS ELSE count

\* CatchRuns with the `return` of the catch block forgotten: the loop goes on.
CatchRunsNoReturn(r) == [runs EXCEPT ![r].pc = "delay"]

\* The catch block: the runs left in flight (both branches return).
CatchRuns(r) == RemoveAt(runs, r)

\* extractInvoiceData(files[i]) rejects with error.code = errorCode for run r.
ExtractReject(r, errorCode) ==
    /\ r \in 1..Len(runs)
    /\ runs[r].pc = "extract"
    /\ processingState' = CatchState(CodeOf(errorCode), runs[r])
    /\ retryCountdown' = CatchCountdown(CodeOf(errorCode), retryCountdown)
    /\ runs' = CatchRuns(r)
    /\ UNCHANGED << files, invoiceData, sessionHistory, duplicateWarning, loads, nextId, started >>
    /\ UNCHANGED aside

\* -------------------------------------------- the quota cooldown effect
\* First branch of the effect: a 1 s timer is armed.
TimerArmed == Status = "quota_cooldown" /\ retryCountdown > 0

\* Decrement when the timer callback runs twice per tick.
DecrementTwice(prev) == prev - 2

\* setRetryCountdown(prev => prev - 1)
Decrement(prev) == prev - 1

\* Second branch of the effect, run with the dependencies (status, count) of
\* the render it follows: the number of handleSanitize() calls it makes.
EffectCalls(status, count) == IF status = "quota_cooldown" /\ count = 0 THEN 1 ELSE 0

\* The timer fires, the countdown is decremented, the component re-renders and
\* the effect runs again with the new countdown.
CooldownTick ==
    /\ TimerArmed
    /\ retryCountdown' = Decrement(retryCountdown)
    /\ IF EffectCalls(Status, retryCountdown') > 0
       THEN Invoke("cooldown")
       ELSE UNCHANGED << processingState, runs, started >>
    /\ UNCHANGED << files, invoiceData, sessionHistory, duplicateWarning, loads, nextId >>
    /\ UNCHANGED aside

\* ------------------------------------------------------------ file input
\* handleFileSelect, called by FileUpload.handleFiles with the current
\* selection extended by n new image files (at most MAX_FILES in all).
HandleFileSelect(n) ==
    /\ ~UploadDisabled
    /\ n >= 1
    /\ Len(files) + n <= MAX_FILES
    /\ Len(files) + n <= MaxBatch
    /\ files' = [k \in 1..(Len(files) + n) |-> k]
    /\ processingState' = Idle
    /\ retryCountdown' = 0
    /\ UNCHANGED << invoiceData, sessionHistory, duplicateWarning, runs, loads, nextId, started >>
    /\ UNCHANGED aside

\* handleClearFile: the X button of the selected-files card.
HandleClearFile ==
    /\ ~UploadDisabled
    /\ Len(files) > 0
    /\ files' = << >>
    /\ processingState' = Idle
    /\ retryCountdown' = 0
    /\ UNCHANGED << invoiceData, sessionHistory, duplicateWarning, runs, loads, nextId, started >>
    /\ UNCHANGED aside

\* handleError, called by FileUpload when only non-image files were chosen.
HandleError ==
    /\ ~UploadDisabled
    /\ processingState' = State("error", "fileTypeError", "INVALID_FILE")
    /\ UNCHANGED << files, invoiceData, sessionHistory, retryCountdown, duplicateWarning,
                    runs, loads, nextId, started >>
    /\ UNCHANGED aside

\* ---------------------------------------------------- handleLoadExample
\* Up to the first await: the dummy file replaces the selection.
HandleLoadExample(key) ==
    /\ currentView = "home"
    /\ Tasks < MaxTasks
    /\ started < MaxStarts
    /\ files' = << 1 >>
    /\ processingState' = State("processing", "analyzing", "none")
    /\ loads' = Append(loads, [key |-> key, pc |-> 1])
    /\ started' = started + 1
    /\ UNCHANGED << invoiceData, sessionHistory, retryCountdown, duplicateWarning,
                    runs, nextId >>
    /\ UNCHANGED aside

\* Between the two awaits: setProcessingState(prev => ({...prev, message})).
LoadExampleMessage(l) ==
    /\ l \in 1..Len(loads)
    /\ loads[l].pc = 1
    /\ processingState' = [processingState EXCEPT !.message = "sanitizing"]
    /\ loads' = [loads EXCEPT ![l].pc = 2]
    /\ UNCHANGED << files, invoiceData, sessionHistory, retryCountdown, duplicateWarning,
                    runs, nextId, started >>
    /\ UNCHANGED aside

\* After the second await: the example becomes the active record and is
\* prepended to the history.
LoadExampleDone(l) ==
    /\ l \in 1..Len(loads)
    /\ loads[l].pc = 2
    /\ nextId < MaxIds
    /\ LET data == EXAMPLES(loads[l].key)
           dataWithId ==
               [id |-> nextId + 1, forced |-> FALSE,
                vendorName |-> data.vendorName, invoiceDate |-> data.invoiceDate,
                totalAmount |-> data.totalAmount, language |-> data.language]
       IN  /\ invoiceData' = dataWithId
           /\ sessionHistory' = << dataWithId >> \o sessionHistory
    /\ nextId' = nextId + 1
    /\ processingState' = Complete
    /\ loads' = RemoveAt(loads, l)
    /\ UNCHANGED << files, retryCountdown, duplicateWarning, runs, started >>
    /\ UNCHANGED aside

\* ------------------------------------------------------ duplicate modal
\* confirmDuplicate (forced records that the user added the record).
ConfirmDuplicate ==
    /\ DuplicateModalShown
    /\ LET inv == [duplicateWarning.invoice EXCEPT !.forced = TRUE]
       IN  /\ sessionHistory' = << inv >> \o sessionHistory
           /\ invoiceData' = inv
    /\ duplicateWarning' = NoWarning
    /\ files' = << >>
    /\ UNCHANGED << processingState, retryCountdown, runs, loads, nextId, started >>
    /\ UNCHANGED aside

CancelDuplicate ==
    /\ DuplicateModalShown
    /\ duplicateWarning' = NoWarning
    /\ UNCHANGED << files, invoiceData, sessionHistory, processingState, retryCountdown,
                    runs, loads, nextId, started >>
    /\ UNCHANGED aside

\* ------------------------------------------------ clear all, navigation
\* The confirmation dialogs (showClearConfirm, showHomeConfirm) only gate
\* their confirm button, and the request that opens them is always possible,
\* so request and confirm are one user gesture here.

\* handleClearAllRequest, then confirmClearAll.  The sidebar button is
\* disabled while the history is empty.
ConfirmClearAll ==
    /\ sessionHistory # << >>
    /\ files' = << >>
    /\ invoiceData' = NoInvoice
    /\ sessionHistory' = << >>
    /\ processingState' = Idle
    /\ runs' = [k \in 1..Len(runs) |-> [runs[k] EXCEPT !.cleared = TRUE]]
    /\ UNCHANGED << retryCountdown, duplicateWarning, loads, nextId, started >>
    /\ UNCHANGED aside

\* The three statements shared by the handlers that leave the current batch.
ClearState ==
    /\ files' = << >>
    /\ invoiceData' = NoInvoice
    /\ processingState' = Idle

\* handleNavigateHome without an active record; with one, handleNavigateHome
\* then confirmNavigateHome.
HandleNavigateHome ==
    /\ ClearState
    /\ UNCHANGED << sessionHistory, retryCountdown, duplicateWarning, runs, loads, nextId, started >>
    /\ UNCHANGED aside

\* handleNewInvoice, the window.confirm (asked when a record is active) accepted.
HandleNewInvoice ==
    /\ ClearState
    /\ UNCHANGED << sessionHistory, retryCountdown, duplicateWarning, runs, loads, nextId, started >>
    /\ UNCHANGED aside

\* SelectState with the setProcessingState call forgotten.
SelectStateKept == processingState

\* The state handleHistorySelect sets.
SelectState == Complete

\* handleHistorySelect(sessionHistory[k]): a click on a row of the sidebar.
HandleHistorySelect(k) ==
    /\ k \in 1..Len(sessionHistory)
    /\ invoiceData' = sessionHistory[k]
    /\ processingState' = SelectState
    /\ UNCHANGED << files, sessionHistory, retryCountdown, duplicateWarning, runs, loads,
                    nextId, started >>
    /\ UNCHANGED aside

\* -------------------------------------------------------- specification
Next ==
    \/ SanitizeClick
    \/ RetryClick
    \/ \E r \in 1..MaxTasks, data \in ExtractionResults : ExtractResolve(r, data)
    \/ \E r \in 1..MaxTasks : DelayResolve(r)
    \/ \E r \in 1..MaxTasks, errorCode \in ErrorCodes : ExtractReject(r, errorCode)
    \/ CooldownTick
    \/ \E n \in 1..MAX_FILES : HandleFileSelect(n)
    \/ HandleClearFile
    \/ HandleError
    \/ \E key \in ExampleKeys : HandleLoadExample(key)
    \/ \E l \in 1..MaxTasks : LoadExampleMessage(l)
    \/ \E l \in 1..MaxTasks : LoadExampleDone(l)
    \/ ConfirmDuplicate
    \/ CancelDuplicate
    \/ ConfirmClearAll
    \/ HandleNavigateHome
    \/ HandleNewInvoice
    \/ \E k \in 1..MaxIds : HandleHistorySelect(k)

Spec == Init /\ [][Next]_vars


\* ------------------- the progress messages of a single-file run (App.tsx)
\* The variables the timers leave alone besides the pipeline's.
untimed == << targetLanguage, isTranslating, translations, edits, targetCurrency,
             learned, input, output >>

\* The else branch of the first loop iteration: with one file, two timers
\* are set, at 1.5 s and at 3.5 s.  Their callbacks test the processing
\* state of the render handleSanitize was called in (live: its status was
\* not 'error') and then write the message into the current state.
Scheduled(fs, ps) ==
    IF Len(fs) = 1
    THEN timers \o << [live |-> ps.status # "error", delay |-> 1500],
                      [live |-> ps.status # "error", delay |-> 3500] >>
    ELSE timers

\* The message a timer writes.
ProgressMessage(delay) == IF delay = 1500 THEN "analyzing" ELSE "sanitizing"

\* The Sanitize button, with the timers of the run.
SanitizeClickTimed ==
    /\ SanitizeButtonShown
    /\ Invoke("click")
    /\ timers' = IF Len(files) = 0 THEN timers ELSE Scheduled(files, processingState)
    /\ UNCHANGED << files, invoiceData, sessionHistory, retryCountdown, duplicateWarning,
                    loads, nextId >>
    /\ UNCHANGED untimed

\* The "try again" button, with the timers of the run.
RetryClickTimed ==
    /\ Status = "error"
    /\ Invoke("retry")
    /\ timers' = IF Len(files) = 0 THEN timers ELSE Scheduled(files, processingState)
    /\ UNCHANGED << files, invoiceData, sessionHistory, retryCountdown, duplicateWarning,
                    loads, nextId >>
    /\ UNCHANGED untimed

\* A timer may fire once every timer set before it with no longer a delay
\* has fired.
Due(k) == \A j \in 1..(k - 1) : timers[j].delay > timers[k].delay

\* if (processingState.status !== 'error')
\*     setProcessingState(prev => ({ ...prev, message }))
WrittenIfLive(ps, timer) ==
    IF timer.live THEN [ps EXCEPT !.message = ProgressMessage(timer.delay)] ELSE ps

\* The callback of timer k runs.
ProgressTimeout(k) ==
    /\ k \in 1..Len(timers)
    /\ Due(k)
    /\ processingState' = WrittenIfLive(processingState, timers[k])
    /\ timers' = RemoveAt(timers, k)
    /\ UNCHANGED << files, invoiceData, sessionHistory, retryCountdown, duplicateWarning,
                    runs, loads, nextId, started >>
    /\ UNCHANGED untimed

\* The first seconds of runs: the 60 s of a quota cooldown outlast the
\* timers, so the countdown and the retry it starts are not part of this
\* specification.
NextProgress ==
    \/ SanitizeClickTimed
    \/ RetryClickTimed
    \/ \E k \in 1..(2 * MaxStarts) : ProgressTimeout(k)
    \/ \E r \in 1..MaxTasks, data \in ExtractionResults : ExtractResolve(r, data)
    \/ \E r \in 1..MaxTasks : DelayResolve(r)
    \/ \E r \in 1..MaxTasks, errorCode \in ErrorCodes : ExtractReject(r, errorCode)
    \/ \E n \in 1..MAX_FILES : HandleFileSelect(n)
    \/ HandleClearFile
    \/ ConfirmDuplicate
    \/ CancelDuplicate

SpecProgress == Init /\ [][NextProgress]_vars


\* ============================================ translation (src/App.tsx)
\* The variables the translation specification leaves alone.
still == << files, processingState, retryCountdown, duplicateWarning, runs, loads,
           targetCurrency, timers, learned, input, output >>

\* Line items: `base` names the text, `via` the languages it was translated
\* through, in order (empty for text as extracted or typed), and unitPrice
\* is the unit price of a row, in hundredths.
Items(base) == [base |-> base, via |-> << >>, unitPrice |-> 500]

\* The fields of a row the user edits here.
EditedFields == {"description", "unitPrice"}

\* handleLineItemChange: the line items with a field of a row retyped.
Retyped(items, field) ==
    IF field = "unitPrice" THEN [items EXCEPT !.unitPrice = @ + 25]
    ELSE [items EXCEPT !.base = @ + 10]

\* What translateLineItems returns when the model answers.
Translated(items, lang) == [items EXCEPT !.via = Append(@, lang)]

\* The options of the language selector used here.
TargetLanguages == {"Original", "English", "Spanish"}

\* The languages handleHistorySelect recognises, among those used here.
KnownLanguages == {"English", "Spanish", "Japanese"}

\* The example buttons pressed in the translation specification.
TranslateExampleKeys == {"receipt", "multilang"}

\* { ...data, id, language, originalLineItems: data.lineItems }
Doc(id, language) ==
    [id |-> id, language |-> language, lineItems |-> Items(id),
     originalLineItems |-> Items(id)]

\* invoiceData.originalLineItems || invoiceData.lineItems (originalLineItems
\* is set on every record).
SourceItemsDisplayed(inv) == inv.lineItems

SourceItems(inv) == inv.originalLineItems

\* ReplaceById with the history left as it is.
ReplaceNothing(hist, d) == hist

\* prev.map(item => item.id === d.id ? d : item)
ReplaceById(hist, d) ==
    [k \in 1..Len(hist) |-> IF hist[k].id = d.id THEN d ELSE hist[k]]

\* revertedData
Reverted(inv) == [inv EXCEPT !.lineItems = SourceItems(inv), !.language = "Original"]

\* The dependency array of the auto-translate effect.
Deps(inv, lang) == << inv.id, inv.language, lang >>

\* The render that follows a handler which leaves the active record inv, the
\* history hist, the target language lang, the calls in flight `calls` and
\* the translating flag busy, with the auto-translate effect run after it
\* when its dependencies changed.
AutoTranslateEffect(inv, hist, lang, calls, busy) ==
    /\ targetLanguage' = lang
    /\ IF Deps(inv, lang) = Deps(invoiceData, targetLanguage) \/ inv = NoInvoice
          \/ inv.language = lang
       THEN /\ invoiceData' = inv
            /\ sessionHistory' = hist
            /\ translations' = calls
            /\ isTranslating' = busy
            /\ started' = started
       ELSE IF lang = "Original"
            THEN /\ invoiceData' = Reverted(inv)
                 /\ sessionHistory' = ReplaceById(hist, Reverted(inv))
                 /\ translations' = calls
                 /\ isTranslating' = busy
                 /\ started' = started
            ELSE /\ started < MaxCalls
                 /\ invoiceData' = inv
                 /\ sessionHistory' = hist
                 /\ translations' = Append(calls, [invoice |-> inv, lang |-> lang,
                                                   input |-> SourceItems(inv)])
                 /\ isTranslating' = TRUE
                 /\ started' = started + 1

\* handleSanitize appends the record of its last file and makes it active.
Extracted ==
    /\ nextId < MaxRecords
    /\ nextId' = nextId + 1
    /\ LET d == Doc(nextId + 1, "Original")
       IN  AutoTranslateEffect(d, << d >> \o sessionHistory, targetLanguage,
                               translations, isTranslating)
    /\ UNCHANGED << edits, still >>

\* The target language handleLoadExample leaves.
ExampleLanguage(key, lang) ==
    IF key = "multilang" THEN "Original" ELSE IF key = "receipt" THEN "English" ELSE lang

\* handleLoadExample after its second await.
ExampleLoaded(key) ==
    /\ nextId < MaxRecords
    /\ nextId' = nextId + 1
    /\ LET d == Doc(nextId + 1, EXAMPLES(key).language)
       IN  AutoTranslateEffect(d, << d >> \o sessionHistory,
                               ExampleLanguage(key, targetLanguage),
                               translations, isTranslating)
    /\ UNCHANGED << edits, still >>

\* The target language handleHistorySelect sets for a record.
SelectLanguage(data) ==
    IF data.language \in KnownLanguages THEN data.language ELSE "Original"

\* handleHistorySelect(sessionHistory[k]).
HistorySelect(k) ==
    /\ k \in 1..Len(sessionHistory)
    /\ AutoTranslateEffect(sessionHistory[k], sessionHistory,
                           SelectLanguage(sessionHistory[k]), translations, isTranslating)
    /\ UNCHANGED << nextId, edits, still >>

\* handleLanguageChange: the selector of the navbar, disabled while translating.
HandleLanguageChange(lang) ==
    /\ ~isTranslating
    /\ AutoTranslateEffect(invoiceData, sessionHistory, lang, translations, isTranslating)
    /\ UNCHANGED << nextId, edits, still >>

\* Ctrl+T: setTargetLanguage(prev => prev === 'Original' ? 'English' : 'Original')
ToggleLanguage ==
    /\ AutoTranslateEffect(invoiceData, sessionHistory,
                           IF targetLanguage = "Original" THEN "English" ELSE "Original",
                           translations, isTranslating)
    /\ UNCHANGED << nextId, edits, still >>

\* Changed without the synchronisation of originalLineItems.
ChangedUnsynced(newData, lang) == newData

\* The record handleInvoiceChange stores for newData.
Changed(newData, lang) ==
    IF lang = "Original" \/ newData.language = "Original"
    THEN [newData EXCEPT !.originalLineItems = newData.lineItems]
    ELSE newData

\* handleInvoiceChange({ ...data, lineItems: newItems }): the user edits the
\* line items of the active record.
HandleInvoiceChange(field) ==
    /\ invoiceData # NoInvoice
    /\ edits < MaxEdits
    /\ edits' = edits + 1
    /\ LET newItems == Retyped(invoiceData.lineItems, field)
           newData == Changed([invoiceData EXCEPT !.lineItems = newItems], targetLanguage)
       IN  AutoTranslateEffect(newData, ReplaceById(sessionHistory, newData),
                               targetLanguage, translations, isTranslating)
    /\ UNCHANGED << nextId, still >>

\* What translateLineItems resolves with: the translation, or, when the model
\* call fails, the items it was given (catch (e) { return items }).  The
\* placeholder body of services/geminiService.ts returns the items it was
\* given on success too, which is the second outcome.
Answer(items, lang, ok) == IF ok THEN Translated(items, lang) ELSE items

\* updatedData of autoTranslate for a call and the items it got back.
Updated(call, translatedItems) ==
    [call.invoice EXCEPT !.lineItems = translatedItems, !.language = call.lang]

\* CommitActive without the id comparison.
CommitActiveAlways(current, captured, updated) == updated

\* setInvoiceData(current => current?.id === invoiceData.id ? updatedData : current)
CommitActive(current, captured, updated) ==
    IF current.id = captured.id THEN updated ELSE current

\* autoTranslate after its await: call c gets its answer and commits it.
AutoTranslateResolve(c, ok) ==
    /\ c \in 1..Len(translations)
    /\ LET call == translations[c]
           updatedData == Updated(call, Answer(call.input, call.lang, ok))
       IN  AutoTranslateEffect(CommitActive(invoiceData, call.invoice, updatedData),
                               ReplaceById(sessionHistory, updatedData),
                               targetLanguage, RemoveAt(translations, c), FALSE)
    /\ UNCHANGED << nextId, edits, still >>

\* confirmClearAll, seen from the translation effect.
ClearAll ==
    /\ sessionHistory # << >>
    /\ AutoTranslateEffect(NoInvoice, << >>, targetLanguage, translations, isTranslating)
    /\ UNCHANGED << nextId, edits, still >>

\* handleNewInvoice / handleNavigateHome, seen from the translation effect.
NewInvoice ==
    /\ invoiceData # NoInvoice
    /\ AutoTranslateEffect(NoInvoice, sessionHistory, targetLanguage, translations,
                           isTranslating)
    /\ UNCHANGED << nextId, edits, still >>

NextTranslate ==
    \/ Extracted
    \/ \E key \in TranslateExampleKeys : ExampleLoaded(key)
    \/ \E k \in 1..MaxRecords : HistorySelect(k)
    \/ \E lang \in TargetLanguages : HandleLanguageChange(lang)
    \/ ToggleLanguage
    \/ \E field \in EditedFields : HandleInvoiceChange(field)
    \/ \E c \in 1..MaxCalls, ok \in BOOLEAN : AutoTranslateResolve(c, ok)
    \/ ClearAll
    \/ NewInvoice

SpecTranslate == Init /\ [][NextTranslate]_vars

\* ------------------------------------------------- src/src/App.tsx (variant)
\* The variant of the component under src/src translates through
\* handleTranslate; its effect depends on the target language alone and its
\* history selection leaves the target language as it is.

\* handleTranslate(lang, dataToTranslate) up to its await, after a handler
\* that leaves the active record inv, the history hist and the target lang.
HandleTranslate(inv, hist, lang, dataToTranslate) ==
    /\ started < MaxCalls
    /\ started' = started + 1
    /\ invoiceData' = inv
    /\ sessionHistory' = hist
    /\ targetLanguage' = lang
    /\ translations' = Append(translations, [invoice |-> dataToTranslate, lang |-> lang,
                                             input |-> SourceItems(dataToTranslate)])
    /\ isTranslating' = TRUE

\* A handler of the variant that leaves inv, hist and lang and starts nothing.
Rendered(inv, hist, lang) ==
    /\ invoiceData' = inv
    /\ sessionHistory' = hist
    /\ targetLanguage' = lang
    /\ UNCHANGED << translations, isTranslating, started >>

\* The effect of the variant, run after a render in which the target
\* language changed.
TranslateEffect(inv, hist, lang) ==
    IF lang = targetLanguage \/ inv = NoInvoice \/ inv.language = lang
    THEN Rendered(inv, hist, lang)
    ELSE IF lang = "Original"
         THEN Rendered(Reverted(inv), ReplaceById(hist, Reverted(inv)), lang)
         ELSE HandleTranslate(inv, hist, lang, inv)

\* handleTransform appends the record of its last file, makes it active and
\* translates it when the target is neither Original nor English.
HandleTransformLast ==
    /\ nextId < MaxRecords
    /\ nextId' = nextId + 1
    /\ LET dataWithId == Doc(nextId + 1, "Original")
           hist == << dataWithId >> \o sessionHistory
       IN  IF targetLanguage # "Original" /\ targetLanguage # "English"
           THEN HandleTranslate(dataWithId, hist, targetLanguage, dataWithId)
           ELSE Rendered(dataWithId, hist, targetLanguage)
    /\ UNCHANGED << edits, still >>

\* handleLoadExample of the variant after its second await.
LoadExampleCommitted(key) ==
    /\ nextId < MaxRecords
    /\ nextId' = nextId + 1
    /\ LET dataWithId == Doc(nextId + 1, EXAMPLES(key).language)
       IN  TranslateEffect(dataWithId, << dataWithId >> \o sessionHistory,
                           ExampleLanguage(key, targetLanguage))
    /\ UNCHANGED << edits, still >>

\* handleHistorySelect of the variant: the record becomes active.
SelectRecord(k) ==
    /\ k \in 1..Len(sessionHistory)
    /\ Rendered(sessionHistory[k], sessionHistory, targetLanguage)
    /\ UNCHANGED << nextId, edits, still >>

\* handleDataLanguageChange: the selector of the navbar, disabled while
\* translating.
HandleDataLanguageChange(lang) ==
    /\ ~isTranslating
    /\ TranslateEffect(invoiceData, sessionHistory, lang)
    /\ UNCHANGED << nextId, edits, still >>

\* handleInvoiceChange of the variant.
EditRecord ==
    /\ invoiceData # NoInvoice
    /\ edits < MaxEdits
    /\ edits' = edits + 1
    /\ LET newItems == [invoiceData.lineItems EXCEPT !.base = @ + 10]
           newData == Changed([invoiceData EXCEPT !.lineItems = newItems], targetLanguage)
       IN  Rendered(newData, ReplaceById(sessionHistory, newData), targetLanguage)
    /\ UNCHANGED << nextId, still >>

\* handleTranslate after its await: setInvoiceData(updatedData).
HandleTranslateResolve(c, ok) ==
    /\ c \in 1..Len(translations)
    /\ LET call == translations[c]
           updatedData == Updated(call, Answer(call.input, call.lang, ok))
       IN  /\ invoiceData' = updatedData
           /\ sessionHistory' = ReplaceById(sessionHistory, updatedData)
    /\ translations' = RemoveAt(translations, c)
    /\ isTranslating' = FALSE
    /\ UNCHANGED << targetLanguage, started, nextId, edits, still >>

\* confirmClearAll of the variant.
ClearRecords ==
    /\ sessionHistory # << >>
    /\ Rendered(NoInvoice, << >>, targetLanguage)
    /\ UNCHANGED << nextId, edits, still >>

\* handleNewInvoice and confirmNavigateHome of the variant.
StartOver ==
    /\ invoiceData # NoInvoice
    /\ Rendered(NoInvoice, sessionHistory, targetLanguage)
    /\ UNCHANGED << nextId, edits, still >>

NextVariant ==
    \/ HandleTransformLast
    \/ \E key \in TranslateExampleKeys : LoadExampleCommitted(key)
    \/ \E k \in 1..MaxRecords : SelectRecord(k)
    \/ \E lang \in TargetLanguages : HandleDataLanguageChange(lang)
    \/ EditRecord
    \/ \E c \in 1..MaxCalls, ok \in BOOLEAN : HandleTranslateResolve(c, ok)
    \/ ClearRecords
    \/ StartOver

SpecVariant == Init /\ [][NextVariant]_vars

\* ------------------------------------------------------ display currency
\* Amounts are in cents and rates in thousandths, so that the arithmetic of
\* the editor stays in the integers.

\* What the currency handlers leave alone.
apart == << files, processingState, retryCountdown, duplicateWarning, runs, loads,
           started, targetLanguage, isTranslating, translations, edits, timers,
           learned, input, output >>

\* The currency symbols records carry or the user types, the target codes of
\* the selector, and the amounts typed into the amount inputs.
Symbols == {"$", "R$", "EUR", "?", ""}
TargetCurrencies == {"Original", "USD", "EUR", "MXN"}
Amounts == {0, 5000}
ExtractedAmounts == {10000, 2599}

\* The strings of the model that match /^[A-Z]+$/ and have length 3.
ThreeUpperLetters == {"USD", "EUR", "MXN", "BRL", "XYZ"}

\* CURRENCY_RATES[code] || 1
RateOf(code) ==
    CASE code = "USD" -> 1000
      [] code = "EUR" -> 1090
      [] code = "MXN" -> 59
      [] code = "BRL" -> 200
      [] OTHER -> 1000

\* CODE_TO_SYMBOL[code] || code
SymbolOf(code) ==
    CASE code = "USD" -> "$"
      [] code = "EUR" -> "€"
      [] code = "MXN" -> "$"
      [] code = "BRL" -> "R$"
      [] OTHER -> code

getCurrencyCode(symbol) ==
    IF symbol \in ThreeUpperLetters THEN symbol
    ELSE IF symbol = "$" THEN "USD"
    ELSE IF symbol = "R$" THEN "BRL"
    ELSE "USD"

\* getExchangeRate with every rate taken against USD, whatever the target.
getExchangeRateToUSD(sourceSymbol, targetCode) ==
    [num |-> RateOf(getCurrencyCode(sourceSymbol)), den |-> RateOf("USD"),
     sourceCode |-> getCurrencyCode(sourceSymbol)]

\* getExchangeRate with the larger table entry always divided by the smaller.
getExchangeRateLargerFirst(sourceSymbol, targetCode) ==
    LET source == RateOf(getCurrencyCode(sourceSymbol))
        target == RateOf(targetCode)
    IN  [num |-> IF source > target THEN source ELSE target,
         den |-> IF source > target THEN target ELSE source,
         sourceCode |-> getCurrencyCode(sourceSymbol)]

\* The rate is the fraction num / den.
getExchangeRate(sourceSymbol, targetCode) ==
    LET sourceCode == getCurrencyCode(sourceSymbol)
    IN  IF sourceCode = targetCode
        THEN [num |-> 1, den |-> 1, sourceCode |-> sourceCode]
        ELSE [num |-> RateOf(sourceCode), den |-> RateOf(targetCode),
              sourceCode |-> sourceCode]

\* getExchangeRate(data.currencySymbol || '$', targetCurrency)
RateFor(data, target) ==
    getExchangeRate(IF data.currencySymbol = "" THEN "$" ELSE data.currencySymbol, target)

isActuallyDifferent(data, target) ==
    /\ target # "Original"
    /\ \/ RateFor(data, target).num # RateFor(data, target).den
       \/ RateFor(data, target).sourceCode # target

\* parseFloat((amount * rate).toFixed(2)): the nearest cent.
Converted(amount, rate) == (2 * amount * rate.num + rate.den) \div (2 * rate.den)

displayTotalAmount(data, target) ==
    IF isActuallyDifferent(data, target)
    THEN Converted(data.totalAmount, RateFor(data, target))
    ELSE data.totalAmount

displayCurrencySymbol(data, target) ==
    IF isActuallyDifferent(data, target) THEN SymbolOf(target) ELSE data.currencySymbol

\* A header whose currency and total inputs are always writable.
HeaderWritable(data, target) == FALSE

isReadOnlyHeader(data, target) == isActuallyDifferent(data, target)

\* An extracted record, with the fields the currency view reads.
Priced(id, symbol, amount) ==
    [id |-> id, language |-> "Original", totalAmount |-> amount, currencySymbol |-> symbol,
     lineItems |-> << amount >>, originalLineItems |-> << amount >>]

\* handleSanitize appends the record of its last file and makes it active.
PricedExtracted(symbol, amount) ==
    /\ nextId < MaxRecords
    /\ nextId' = nextId + 1
    /\ invoiceData' = Priced(nextId + 1, symbol, amount)
    /\ sessionHistory' = << Priced(nextId + 1, symbol, amount) >> \o sessionHistory
    /\ UNCHANGED << targetCurrency, apart >>

\* handleCurrencyChange: the currency selector of the navbar.
HandleCurrencyChange(code) ==
    /\ targetCurrency' = code
    /\ UNCHANGED << invoiceData, sessionHistory, nextId, apart >>

\* Ctrl+C: setTargetCurrency(prev => prev === 'Original' ? 'USD' : 'Original')
ToggleCurrency ==
    /\ targetCurrency' = IF targetCurrency = "Original" THEN "USD" ELSE "Original"
    /\ UNCHANGED << invoiceData, sessionHistory, nextId, apart >>

\* handleInvoiceChange(newData) reached from the editor.
OnChange(newData) ==
    /\ invoiceData' = Changed(newData, targetLanguage)
    /\ sessionHistory' = ReplaceById(sessionHistory, Changed(newData, targetLanguage))
    /\ UNCHANGED << targetCurrency, nextId, apart >>

\* onChange of the header's total input:
\* !isReadOnlyHeader && handleHeaderChange('totalAmount', value)
TotalInput(value) ==
    /\ invoiceData # NoInvoice
    /\ IF isReadOnlyHeader(invoiceData, targetCurrency)
       THEN UNCHANGED vars
       ELSE OnChange([invoiceData EXCEPT !.totalAmount = value])

\* onChange of the header's currency input:
\* !isReadOnlyHeader && handleHeaderChange('currencySymbol', value)
CurrencyInput(value) ==
    /\ invoiceData # NoInvoice
    /\ IF isReadOnlyHeader(invoiceData, targetCurrency)
       THEN UNCHANGED vars
       ELSE OnChange([invoiceData EXCEPT !.currencySymbol = value])

\* handleLineItemChange(0, 'totalAmount', value): the line total of a row.
HandleLineItemChange(value) ==
    /\ invoiceData # NoInvoice
    /\ OnChange([invoiceData EXCEPT !.lineItems = << value >>])

\* handleHistorySelect, for the fields the currency view reads.
PricedSelect(k) ==
    /\ k \in 1..Len(sessionHistory)
    /\ invoiceData' = sessionHistory[k]
    /\ UNCHANGED << sessionHistory, targetCurrency, nextId, apart >>

NextCurrency ==
    \/ \E symbol \in Symbols \ {""}, amount \in ExtractedAmounts : PricedExtracted(symbol, amount)
    \/ \E code \in TargetCurrencies : HandleCurrencyChange(code)
    \/ ToggleCurrency
    \/ \E value \in Amounts : TotalInput(value)
    \/ \E value \in Symbols : CurrencyInput(value)
    \/ \E value \in Amounts : HandleLineItemChange(value)
    \/ \E k \in 1..MaxRecords : PricedSelect(k)

SpecCurrency == Init /\ [][NextCurrency]_vars

\* ------------------------------------------------------- pure functions
\* The component at rest, while a pure function is applied to `input`.
beside == << pipeline, targetLanguage, isTranslating, translations, edits, targetCurrency,
            timers, learned >>

Resting ==
    /\ files = << >>
    /\ invoiceData = NoInvoice
    /\ sessionHistory = << >>
    /\ processingState = Idle
    /\ retryCountdown = 0
    /\ duplicateWarning = NoWarning
    /\ runs = << >>
    /\ loads = << >>
    /\ nextId = 0
    /\ started = 0
    /\ targetLanguage = "English"
    /\ isTranslating = FALSE
    /\ translations = << >>
    /\ edits = 0
    /\ targetCurrency = "Original"
    /\ timers = << >>
    /\ learned = << >>

\* Records for the duplicate check: vendor names that differ in case and
\* padding, two dates, totals on both sides of the 0.01 tolerance.
DuplicateVendors == {<<"A", "c", "m", "e">>, <<" ", "a", "C", "M", "E", " ">>, <<"T">>}
DuplicateDates == {"2024-01-01", "today"}
DuplicateAmounts == {100000, 100009, 100010}
DuplicateSamples ==
    [vendorName : DuplicateVendors, invoiceDate : DuplicateDates,
     totalAmount : DuplicateAmounts]

InitDuplicate ==
    /\ Resting
    /\ input \in DuplicateSamples \X DuplicateSamples
    /\ output = << >>

\* The predicate applied to the pair in both orders.
ApplyIsDuplicate ==
    /\ output = << >>
    /\ output' = << [stored |-> IsDuplicate(input[1], input[2]),
                     candidate |-> IsDuplicate(input[2], input[1])] >>
    /\ UNCHANGED << beside, input >>

SpecDuplicate == InitDuplicate /\ [][ApplyIsDuplicate]_vars

\* --- assessExtractionQuality (services/geminiService.ts)
\* Texts are sequences of characters.
\* Object.keys(translations)
SupportedLanguages ==
    {"English", "Spanish", "French", "German", "Chinese", "Japanese", "Portuguese",
     "Hindi", "Arabic", "Korean", "Italian"}

\* toLowerCase on the language names of the model.
LowerName(name) ==
    CASE name = "japanese" -> "japanese"
      [] name = "Japanese" -> "japanese"
      [] name = "Klingon" -> "klingon"
      [] name = "English" -> "english"
      [] OTHER -> name

\* CURRENCY_RATES[code] is a non-zero number.
HasRate(code) == code \in {"USD", "EUR", "MXN", "BRL"}

\* A line item, with the fields the assessor reads.
Item(unitPrice, totalAmount, description) ==
    [unitPrice |-> unitPrice, totalAmount |-> totalAmount, description |-> description]

Widget == <<"W", "i", "d", "g", "e", "t">>
SocialNumber == <<"I", "D", " ", "1", "2", "3", "-", "4", "5", "-", "6", "7", "8", "9">>
CardNumber == <<"4", "1", "1", "1", " ", "1", "1", "1", "1", " ", "1", "1", "1", "1", " ", "1", "1", "1", "1">>
TaxNote == <<"T", "a", "x", " ", "I", "D", " ", "f", "e", "e">>

\* Inputs of the assessor: line items (none, one, two; priced or not; with
\* and without sensitive text), vendor names (empty, "Unknown", a name, a
\* name that holds a keyword), totals, currency symbols, languages and
\* language confidences.
QualityItems ==
    {<< >>, << Item(0, 0, Widget) >>, << Item(500, 500, Widget) >>,
     << Item(500, 500, Widget), Item(200, 400, Widget) >>,
     << Item(500, 500, Widget), Item(0, 0, Widget) >>,
     << Item(500, 500, SocialNumber), Item(200, 400, Widget) >>,
     << Item(500, 500, CardNumber), Item(200, 400, TaxNote) >>}
QualityVendors ==
    {<< >>, <<"U", "n", "k", "n", "o", "w", "n">>, <<"A", "c", "m", "e">>, <<"K", "l", "e", "i", "n">>}
QualityTotals == {0, 100000}
QualitySymbols == {"$", "XYZ", "?"}
QualityLanguages == {"", "Original", "japanese", "Klingon"}
QualityConfidences == {50, 95}
QualitySamples ==
    [lineItems : QualityItems, vendorName : QualityVendors, totalAmount : QualityTotals,
     currencySymbol : QualitySymbols, language : QualityLanguages,
     languageConfidence : QualityConfidences]

\* Check 1: Zero Prices
HasZeroPrices(data) ==
    /\ \E k \in 1..Len(data.lineItems) :
          data.lineItems[k].unitPrice = 0 /\ data.lineItems[k].totalAmount = 0
    /\ Len(data.lineItems) > 0

\* Check 2 with the threshold 3.
LowItemCountThree(data) == Len(data.lineItems) < 3

\* Check 2: Low Item Count
LowItemCount(data) == Len(data.lineItems) < 2

\* Check 3: Metadata Health
MissingMetadata(data) ==
    \/ data.vendorName = << >>
    \/ toLowerCase(data.vendorName) = <<"u", "n", "k", "n", "o", "w", "n">>
    \/ data.totalAmount = 0

\* Check 4: Unsupported Currency
UnsupportedCurrency(data) == ~HasRate(getCurrencyCode(data.currencySymbol))

\* Check 5: Unsupported Language
UnsupportedLanguage(data) ==
    /\ data.language # ""
    /\ data.language # "Original"
    /\ ~\E lang \in SupportedLanguages : LowerName(lang) = LowerName(data.language)

\* The validation flags of assessExtractionQuality.
Flags(data) ==
    [hasZeroPrices |-> HasZeroPrices(data),
     lowItemCount |-> LowItemCount(data),
     missingMetadata |-> MissingMetadata(data),
     unsupportedCurrency |-> UnsupportedCurrency(data),
     unsupportedLanguage |-> UnsupportedLanguage(data)]

\* The confidence score for the flags.
Score(flags) ==
    IF flags.missingMetadata \/ flags.unsupportedCurrency THEN "Low"
    ELSE IF flags.hasZeroPrices \/ flags.lowItemCount \/ flags.unsupportedLanguage
         THEN "Medium"
         ELSE "High"

\* String.prototype.includes
includes(text, kw) ==
    \E i \in 1..(Len(text) - Len(kw) + 1) : SubSeq(text, i, i + Len(kw) - 1) = kw

\* The keywords of detectSensitiveData.
Keywords ==
    {<<"S", "S", "N">>,
     <<"S", "o", "c", "i", "a", "l", " ", "S", "e", "c", "u", "r", "i", "t", "y">>,
     <<"T", "a", "x", " ", "I", "D">>,
     <<"E", "I", "N">>,
     <<"T", "a", "x", "p", "a", "y", "e", "r">>,
     <<"P", "a", "s", "s", "p", "o", "r", "t">>,
     <<"D", "r", "i", "v", "e", "r", " ", "L", "i", "c", "e", "n", "s", "e">>,
     <<"C", "r", "e", "d", "i", "t", " ", "C", "a", "r", "d">>,
     <<"A", "c", "c", "o", "u", "n", "t", " ", "N", "u", "m", "b", "e", "r">>}

detectSensitiveData(text) ==
    \E kw \in Keywords : includes(toLowerCase(text), toLowerCase(kw))

Digits == {"0", "1", "2", "3", "4", "5", "6", "7", "8", "9"}

\* \w of a regular expression, at position i of text t (off the ends: no).
IsWord(t, i) ==
    /\ i \in 1..Len(t)
    /\ \/ t[i] \in Digits
       \/ t[i] = "_"
       \/ \E k \in 1..Len(UpperCase) : t[i] = UpperCase[k] \/ t[i] = LowerCase[k]

\* \b of a regular expression, between positions i - 1 and i of text t.
Boundary(t, i) == IsWord(t, i - 1) # IsWord(t, i)

\* /\b\d{3}-\d{2}-\d{4}\b/.test(t)
MatchesSSN(t) ==
    \E i \in 1..(Len(t) - 10) :
        /\ Boundary(t, i)
        /\ \A k \in {0, 1, 2, 4, 5, 7, 8, 9, 10} : t[i + k] \in Digits
        /\ t[i + 3] = "-"
        /\ t[i + 6] = "-"
        /\ Boundary(t, i + 11)

\* /\b(?:\d[ -]*?){13,16}\b/.test(t)
MatchesCard(t) ==
    \E i \in 1..Len(t) : \E j \in i..Len(t) :
        /\ Boundary(t, i)
        /\ t[i] \in Digits
        /\ \A k \in i..j : t[k] \in Digits \cup {" ", "-"}
        /\ Cardinality({k \in i..j : t[k] \in Digits}) \in 13..16
        /\ Boundary(t, j + 1)

\* The characters of the strings assessExtractionQuality writes.
Chars(name) ==
    CASE name = "High" -> <<"H", "i", "g", "h">>
      [] name = "Medium" -> <<"M", "e", "d", "i", "u", "m">>
      [] name = "Low" -> <<"L", "o", "w">>
      [] name = "Vendor PII" -> <<"V", "e", "n", "d", "o", "r", " ", "P", "I", "I">>
      [] name = "Description PII" -> <<"D", "e", "s", "c", "r", "i", "p", "t", "i", "o", "n", " ", "P", "I", "I">>
      [] name = "SSN" -> <<"S", "S", "N">>
      [] name = "Credit Card" -> <<"C", "r", "e", "d", "i", "t", " ", "C", "a", "r", "d">>

\* The texts of a sequence, one after the other with a quote and a comma
\* between them as in JSON.
RECURSIVE Joined(_)
Joined(texts) ==
    IF texts = << >> THEN << >>
    ELSE Head(texts) \o << "\"", "," , "\"" >> \o Joined(Tail(texts))

\* JSON.stringify(data), reduced to its string values in key order: the
\* vendor name, the descriptions, and the score and the sensitive data types
\* when an earlier assessment left them.  The numbers and booleans of a
\* record stand between key names and are shorter than 13 digits each.
textContent(data) ==
    Joined(<< data.vendorName >>
           \o [k \in 1..Len(data.lineItems) |-> data.lineItems[k].description]
           \o (IF "confidenceScore" \in DOMAIN data
               THEN << Chars(data.confidenceScore) >> ELSE << >>)
           \o (IF "sensitiveDataTypes" \in DOMAIN data
               THEN [k \in 1..Len(data.sensitiveDataTypes) |->
                        Chars(data.sensitiveDataTypes[k])]
               ELSE << >>))

\* The names of a list whose conditions hold, in the order of the list.
RECURSIVE Pushed(_)
Pushed(checks) ==
    IF checks = << >> THEN << >>
    ELSE (IF Head(checks).found THEN << Head(checks).type >> ELSE << >>)
             \o Pushed(Tail(checks))

\* Check 6 with the keywords looked up in the whole text of the record.
SensitiveTypesByText(data) ==
    Pushed(<< [type |-> "Vendor PII", found |-> detectSensitiveData(textContent(data))],
              [type |-> "SSN", found |-> MatchesSSN(textContent(data))],
              [type |-> "Credit Card", found |-> MatchesCard(textContent(data))] >>)

\* Check 6: sensitiveTypes
SensitiveTypes(data) ==
    Pushed(<< [type |-> "Vendor PII", found |-> detectSensitiveData(data.vendorName)],
              [type |-> "Description PII",
               found |-> \E k \in 1..Len(data.lineItems) :
                            detectSensitiveData(data.lineItems[k].description)],
              [type |-> "SSN", found |-> MatchesSSN(textContent(data))],
              [type |-> "Credit Card", found |-> MatchesCard(textContent(data))] >>)

\* { ...data, confidenceScore, validationFlags, hasSensitiveData,
\*   sensitiveDataTypes }, with no types standing for undefined.
assessExtractionQuality(data) ==
    [confidenceScore |-> Score(Flags(data)), validationFlags |-> Flags(data),
     hasSensitiveData |-> SensitiveTypes(data) # << >>,
     sensitiveDataTypes |-> SensitiveTypes(data)] @@ data

InitQuality ==
    /\ Resting
    /\ input \in QualitySamples
    /\ output = << >>

ApplyAssessExtractionQuality ==
    /\ output = << >>
    /\ output' = << assessExtractionQuality(input) >>
    /\ UNCHANGED << beside, input >>

\* The assessor applied to its own result.
ReapplyAssessExtractionQuality ==
    /\ Len(output) = 1
    /\ output' = Append(output, assessExtractionQuality(output[1]))
    /\ UNCHANGED << beside, input >>

NextQuality == ApplyAssessExtractionQuality \/ ReapplyAssessExtractionQuality

SpecQuality == InitQuality /\ [][NextQuality]_vars

\* --- the editor on an assessed record (components/InvoiceEditor.tsx)
\* What an edit of the editor leaves alone.
unedited == << pipeline, targetLanguage, isTranslating, translations, targetCurrency,
              timers, learned, input >>

\* handleHeaderChange(field, value): onChange({ ...data, [field]: value }),
\* which handleInvoiceChange stores as the active record.
HeaderEdited(field, value) ==
    /\ Len(output) = 1
    /\ edits < MaxEdits
    /\ output[1][field] # value
    /\ edits' = edits + 1
    /\ output' = << [output[1] EXCEPT ![field] = value] >>
    /\ UNCHANGED unedited

\* removeLineItem(index): onChange({ ...data, lineItems: data.lineItems
\* .filter((_, i) => i !== index) }).
LineItemRemoved(index) ==
    /\ Len(output) = 1
    /\ edits < MaxEdits
    /\ index \in 1..Len(output[1].lineItems)
    /\ edits' = edits + 1
    /\ output' = << [output[1] EXCEPT !.lineItems = RemoveAt(@, index)] >>
    /\ UNCHANGED unedited

\* The header inputs of the editor and the values typed into them.
HeaderFields == {"vendorName", "totalAmount", "currencySymbol"}
TypedValues(field) ==
    CASE field = "vendorName" -> QualityVendors
      [] field = "totalAmount" -> QualityTotals
      [] field = "currencySymbol" -> QualitySymbols

\* The record the extraction returned, assessed, and then edited.
NextEditor ==
    \/ ApplyAssessExtractionQuality
    \/ \E field \in HeaderFields : \E value \in TypedValues(field) :
           HeaderEdited(field, value)
    \/ \E index \in 1..3 : LineItemRemoved(index)

SpecEditor == InitQuality /\ [][NextEditor]_vars

\* --- getExchangeRate (utils/currency)
\* Arguments of getExchangeRate: codes with and without a table entry and
\* symbols with and without a SYMBOL_MAP entry, each as source and as target.
RateArguments == {"USD", "EUR", "MXN", "BRL", "XYZ", "$", "R$", "?"}

InitRate ==
    /\ Resting
    /\ input \in RateArguments \X RateArguments
    /\ output = << >>

\* The rate of the pair, and after it the rate of the pair reversed.
ApplyGetExchangeRate ==
    /\ Len(output) < 2
    /\ output' = IF output = << >>
                 THEN << getExchangeRate(input[1], input[2]) >>
                 ELSE Append(output, getExchangeRate(input[2], input[1]))
    /\ UNCHANGED << beside, input >>

SpecRate == InitRate /\ [][ApplyGetExchangeRate]_vars

\* --- extractInvoiceData post-processing (services/geminiService.ts)
\* Numbers are in hundredths.  A raw value of the extraction is a number or
\* a text.
Number(n) == [number |-> n]
Text(t) == [text |-> t]

\* The value of a digit character.
DigitValue(c) ==
    CASE c = "0" -> 0 [] c = "1" -> 1 [] c = "2" -> 2 [] c = "3" -> 3 [] c = "4" -> 4
      [] c = "5" -> 5 [] c = "6" -> 6 [] c = "7" -> 7 [] c = "8" -> 8 [] c = "9" -> 9

\* The digits at the head of a text.
RECURSIVE LeadingDigits(_)
LeadingDigits(t) ==
    IF t # << >> /\ Head(t) \in Digits THEN << Head(t) >> \o LeadingDigits(Tail(t))
    ELSE << >>

\* The number a sequence of digits writes.
RECURSIVE Decimal(_)
Decimal(ds) ==
    IF ds = << >> THEN 0 ELSE 10 * Decimal(SubSeq(ds, 1, Len(ds) - 1)) + DigitValue(ds[Len(ds)])

\* parseFloat(t) || 0 in hundredths, for texts with at most two decimals:
\* an optional sign, digits, an optional point and digits; a text that
\* starts with no number gives NaN and so 0.
parseFloat(t) ==
    LET negative == t # << >> /\ Head(t) = "-"
        unsigned == IF negative THEN Tail(t) ELSE t
        whole == LeadingDigits(unsigned)
        rest == SubSeq(unsigned, Len(whole) + 1, Len(unsigned))
        decimals == IF rest # << >> /\ Head(rest) = "." THEN LeadingDigits(Tail(rest))
                    ELSE << >>
        padded == SubSeq(decimals \o << "0", "0" >>, 1, 2)
        magnitude == 100 * Decimal(whole) + Decimal(padded)
    IN  IF whole = << >> /\ decimals = << >> THEN 0
        ELSE IF negative THEN 0 - magnitude ELSE magnitude

\* String(val).replace(/[^0-9.-]/g, '')
Keeps(c) == c \in Digits \cup {".", "-"}
cleaned(t) == SelectSeq(t, Keeps)

cleanNumber(val) ==
    IF "number" \in DOMAIN val THEN val.number
    ELSE IF val.text = << >> THEN 0
    ELSE parseFloat(cleaned(val.text))

\* toFixed(2) of n / d with the fraction cut off.
Truncated(n, d) == {n \div d}

\* parseFloat((n / d).toFixed(2)) for positive n and d: the nearest
\* hundredth; a quotient exactly half way is rounded by its binary
\* representation, up or down.
Rounded(n, d) ==
    IF 2 * (n % d) < d THEN {n \div d}
    ELSE IF 2 * (n % d) > d THEN {n \div d + 1}
    ELSE {n \div d, n \div d + 1}

\* Raw line items of the extraction: prices, totals and quantities as
\* numbers and as texts, zero, positive and negative.
RawPrices == {Number(0), Number(2000), Text(<<"$", "2", "0", ".", "0", "0">>), Text(<<"n", "/", "a">>), Number(333)}
RawTotals == {Number(0), Number(4000), Number(2000), Text(<<"4", "0", ".", "0", "0", "!">>), Number(0 - 500), Number(5)}
RawQuantities == {Number(0), Number(200), Number(300), Text(<<"2", " ", "p", "c", "s">>)}
RawItems == [unitPrice : RawPrices, totalAmount : RawTotals, quantity : RawQuantities]

\* The line item the map callback returns for an item, for the roundings r
\* of the unit price and s of the total.
Sanitized(item, r, s) ==
    LET unitPrice == cleanNumber(item.unitPrice)
        totalAmount == cleanNumber(item.totalAmount)
        quantity == cleanNumber(item.quantity)
        filledPrice == IF unitPrice = 0 /\ quantity > 0 /\ totalAmount > 0
                       THEN r ELSE unitPrice
        filledTotal == IF totalAmount = 0 /\ quantity > 0 /\ filledPrice > 0
                       THEN s ELSE totalAmount
    IN  [quantity |-> quantity, unitPrice |-> filledPrice, totalAmount |-> filledTotal]

InitPostProcess ==
    /\ Resting
    /\ input \in RawItems
    /\ output = << >>

\* The map callback of the post-processing applied to a raw line item.
ApplyPostProcess ==
    /\ output = << >>
    /\ LET unitPrice == cleanNumber(input.unitPrice)
           totalAmount == cleanNumber(input.totalAmount)
           quantity == cleanNumber(input.quantity)
       IN  \E r \in (IF quantity > 0 /\ totalAmount > 0
                     THEN Rounded(100 * totalAmount, quantity) ELSE {0}) :
           \E s \in (IF quantity > 0 /\ unitPrice > 0
                     THEN Rounded(quantity * unitPrice, 100) ELSE {0}) :
               output' = << Sanitized(input, r, s) >>
    /\ UNCHANGED << beside, input >>

SpecPostProcess == InitPostProcess /\ [][ApplyPostProcess]_vars

\* --- generateCSV (App.tsx)
\* A text is a sequence of characters and an amount is a number of
\* hundredths.  The export is applied to lists of at most MaxExported
\* records of at most MaxLineItems line items each.
MaxExported == 2
MaxLineItems == 2

\* s.replace(/"/g, '""')
RECURSIVE Doubled(_)
Doubled(s) ==
    IF s = << >> THEN << >>
    ELSE (IF Head(s) = "\"" THEN << "\"", "\"" >> ELSE << Head(s) >>) \o Doubled(Tail(s))

\* The template `"${s.replace(/"/g, '""')}"`.
Quoted(s) == << "\"" >> \o Doubled(s) \o << "\"" >>

DigitOf(d) == << "0", "1", "2", "3", "4", "5", "6", "7", "8", "9" >>[d + 1]

\* The decimal digits of a natural number.
RECURSIVE Numeral(_)
Numeral(n) ==
    IF n < 10 THEN << DigitOf(n) >> ELSE Numeral(n \div 10) \o << DigitOf(n % 10) >>

\* The text join() writes for a number: the shortest decimal, without
\* trailing zeros.
Written(n) ==
    LET sign == IF n < 0 THEN << "-" >> ELSE << >>
        cents == Abs(n) % 100
    IN  sign \o Numeral(Abs(n) \div 100) \o
        (IF cents = 0 THEN << >>
         ELSE IF cents % 10 = 0 THEN << ".", DigitOf(cents \div 10) >>
         ELSE << ".", DigitOf(cents \div 10), DigitOf(cents % 10) >>)

\* n.toFixed(2)
toFixed(n) ==
    (IF n < 0 THEN << "-" >> ELSE << >>) \o Numeral(Abs(n) \div 100) \o
    << ".", DigitOf((Abs(n) % 100) \div 10), DigitOf(Abs(n) % 10) >>

\* parts.join(sep)
RECURSIVE join(_, _)
join(parts, sep) ==
    IF parts = << >> THEN << >>
    ELSE IF Len(parts) = 1 THEN parts[1]
    ELSE parts[1] \o << sep >> \o join(Tail(parts), sep)

\* The column labels t.csv... of the English interface.
headers ==
    << <<"D", "o", "c", "u", "m", "e", "n", "t", " ", "T", "y", "p", "e">>,
       <<"V", "e", "n", "d", "o", "r">>,
       <<"D", "a", "t", "e">>,
       <<"T", "o", "t", "a", "l", " ", "A", "m", "o", "u", "n", "t">>,
       <<"C", "u", "r", "r", "e", "n", "c", "y">>,
       <<"S", "K", "U">>,
       <<"D", "e", "s", "c", "r", "i", "p", "t", "i", "o", "n">>,
       <<"G", "L", " ", "C", "a", "t", "e", "g", "o", "r", "y">>,
       <<"Q", "u", "a", "n", "t", "i", "t", "y">>,
       <<"U", "n", "i", "t", " ", "P", "r", "i", "c", "e">>,
       <<"L", "i", "n", "e", " ", "T", "o", "t", "a", "l">> >>

Unknown == <<"U", "n", "k", "n", "o", "w", "n">>

\* r.f || '' for a text property f that may be missing.  An undefined
\* element of an array is written by join() as the empty text as well.
OrEmpty(r, f) == IF f \in DOMAIN r THEN r[f] ELSE << >>

\* `${r.f}` for a text property f that may be missing.
Interpolated(r, f) ==
    IF f \in DOMAIN r THEN r[f] ELSE <<"u", "n", "d", "e", "f", "i", "n", "e", "d">>

\* The cells of the row of line item `item` of record `doc`.
Row(doc, item) ==
    << Quoted(IF OrEmpty(doc, "documentType") = << >> THEN Unknown ELSE doc.documentType),
       Quoted(doc.vendorName),
       OrEmpty(doc, "invoiceDate"),
       Written(doc.totalAmount),
       IF doc.currencySymbol = << >> THEN << "$" >> ELSE doc.currencySymbol,
       Quoted(OrEmpty(item, "sku")),
       Quoted(item.description),
       Quoted(OrEmpty(item, "glCategory")),
       Written(item.quantity),
       Written(item.unitPrice),
       toFixed(item.totalAmount) >>

\* The rows with those of the later records first.
RECURSIVE allRowsLastFirst(_)
allRowsLastFirst(data) ==
    IF data = << >> THEN << >>
    ELSE allRowsLastFirst(Tail(data))
         \o [j \in 1..Len(Head(data).lineItems) |-> Row(Head(data), Head(data).lineItems[j])]

\* data.flatMap(doc => doc.lineItems.map(item => [...]))
RECURSIVE allRows(_)
allRows(data) ==
    IF data = << >> THEN << >>
    ELSE [j \in 1..Len(Head(data).lineItems) |-> Row(Head(data), Head(data).lineItems[j])]
         \o allRows(Tail(data))

\* The days of a month.
DaysIn(year, month) ==
    IF month = 2
    THEN (IF year % 4 = 0 /\ (year % 100 # 0 \/ year % 400 = 0) THEN 29 ELSE 28)
    ELSE IF month \in {4, 6, 9, 11} THEN 30 ELSE 31

\* A text of the form YYYY-MM-DD.
IsIsoDate(t) ==
    /\ Len(t) = 10
    /\ t[5] = "-" /\ t[8] = "-"
    /\ \A i \in {1, 2, 3, 4, 6, 7, 9, 10} : t[i] \in Digits

NaN == <<"N", "a", "N">>

\* `${d.getMonth()+1}/${d.getDate()}/${d.getFullYear()}` of d = new
\* Date(doc.invoiceDate).  A date-only text is midnight UTC and the getters
\* read local time: in a zone west of Greenwich that is the day before.  A
\* missing or empty date is an invalid Date, whose getters give NaN.
qbDate(doc, west) ==
    LET t == OrEmpty(doc, "invoiceDate")
        year == Decimal(SubSeq(t, 1, 4))
        month == Decimal(SubSeq(t, 6, 7))
        day == Decimal(SubSeq(t, 9, 10))
        y == IF west /\ day = 1 /\ month = 1 THEN year - 1 ELSE year
        m == IF west /\ day = 1 THEN (IF month = 1 THEN 12 ELSE month - 1) ELSE month
        d == IF west THEN (IF day = 1 THEN DaysIn(y, m) ELSE day - 1) ELSE day
    IN  CASE t = << >> -> NaN \o << "/" >> \o NaN \o << "/" >> \o NaN
          [] IsIsoDate(t) -> Numeral(m) \o << "/" >> \o Numeral(d) \o << "/" >> \o Numeral(y)

\* The header labels of the accounting formats.
HeadersOf(format) ==
    CASE format = "quickbooks" ->
           << <<"C", "u", "s", "t", "o", "m", "e", "r">>,
              <<"I", "n", "v", "o", "i", "c", "e", "D", "a", "t", "e">>,
              <<"I", "t", "e", "m">>,
              <<"Q", "u", "a", "n", "t", "i", "t", "y">>,
              <<"R", "a", "t", "e">>,
              <<"A", "m", "o", "u", "n", "t">> >>
      [] format = "xero" ->
           << <<"*", "C", "o", "n", "t", "a", "c", "t", "N", "a", "m", "e">>,
              <<"*", "I", "n", "v", "o", "i", "c", "e", "D", "a", "t", "e">>,
              <<"*", "D", "u", "e", "D", "a", "t", "e">>,
              <<"*", "D", "e", "s", "c", "r", "i", "p", "t", "i", "o", "n">>,
              <<"*", "Q", "u", "a", "n", "t", "i", "t", "y">>,
              <<"*", "U", "n", "i", "t", "A", "m", "o", "u", "n", "t">>,
              <<"*", "A", "c", "c", "o", "u", "n", "t", "C", "o", "d", "e">>,
              <<"T", "a", "x", "T", "y", "p", "e">> >>
      [] format = "sap" ->
           << <<"H", "D", "R">>,
              <<"V", "e", "n", "d", "o", "r">>,
              <<"D", "a", "t", "e">>,
              <<"T", "o", "t", "a", "l">>,
              <<"|">>,
              <<"I", "T", "M">>,
              <<"M", "a", "t", "e", "r", "i", "a", "l">>,
              <<"D", "e", "s", "c">>,
              <<"Q", "t", "y">>,
              <<"P", "r", "i", "c", "e">> >>

\* The cells of the row of a line item in an accounting format, in a zone
\* west of Greenwich or not.
RowIn(format, doc, item, west) ==
    CASE format = "quickbooks" ->
           << Quoted(doc.vendorName),
              qbDate(doc, west),
              Quoted(item.description),
              Written(item.quantity),
              Written(item.unitPrice),
              toFixed(item.totalAmount) >>
      [] format = "xero" ->
           << Quoted(doc.vendorName),
              OrEmpty(doc, "invoiceDate"),
              << >>,
              Quoted(item.description),
              Written(item.quantity),
              Written(item.unitPrice),
              Quoted(OrEmpty(item, "glCategory")),
              <<"T", "a", "x", " ", "E", "x", "e", "m", "p", "t">> >>
      [] format = "sap" ->
           << <<"H", "D", "R">>, doc.vendorName, OrEmpty(doc, "invoiceDate"),
              Written(doc.totalAmount), << "|" >>,
              <<"I", "T", "M">>, OrEmpty(item, "sku"), item.description,
              Written(item.quantity), Written(item.unitPrice) >>

\* data.flatMap(doc => doc.lineItems.map(item => ...)) of an accounting
\* format.
RECURSIVE allRowsIn(_, _, _)
allRowsIn(format, data, west) ==
    IF data = << >> THEN << >>
    ELSE [j \in 1..Len(Head(data).lineItems) |->
             RowIn(format, Head(data), Head(data).lineItems[j], west)]
         \o allRowsIn(format, Tail(data), west)

\* The zone of the browser, which the run fixes.
West == "west" \in DOMAIN input /\ input.west

\* The text of an export: an accounting format, or the generic one, which
\* any other format falls through to.
generateCSV(data, format) ==
    IF format \in {"quickbooks", "xero", "sap"}
    THEN LET rows == allRowsIn(format, data, West)
             sep == IF format = "sap" THEN "|" ELSE ","
         IN  join(<< join(HeadersOf(format), sep) >>
                  \o [k \in 1..Len(rows) |-> join(rows[k], sep)], "\n")
    ELSE LET rows == allRows(data)
         IN  join(<< join(headers, ",") >> \o [k \in 1..Len(rows) |-> join(rows[k], ",")], "\n")

\* <td>...</td>: a tag is one element of the text.
Cell(t) == << "<td>" >> \o t \o << "</td>" >>

\* The cells of a row of the spreadsheet markup.
MarkupRow(invoice, item) ==
    << "<tr>" >>
    \o Cell(OrEmpty(invoice, "documentType"))
    \o Cell(invoice.vendorName)
    \o Cell(Interpolated(invoice, "invoiceDate"))
    \o Cell(Written(invoice.totalAmount))
    \o Cell(invoice.currencySymbol)
    \o Cell(OrEmpty(item, "sku"))
    \o Cell(item.description)
    \o Cell(Interpolated(item, "glCategory"))
    \o Cell(Written(item.quantity))
    \o Cell(Written(item.unitPrice))
    \o Cell(Written(item.totalAmount))
    \o << "</tr>" >>

RECURSIVE Concat(_)
Concat(texts) == IF texts = << >> THEN << >> ELSE Head(texts) \o Concat(Tail(texts))

\* tableHtml of handleDownloadExcel for the active record.
tableHtml(invoice) ==
    << "<html>", "<head>", "</head>", "<body>", "<table>", "<thead>", "<tr>" >>
    \o Concat([h \in 1..Len(headers) |-> << "<th>" >> \o headers[h] \o << "</th>" >>])
    \o << "</tr>", "</thead>", "<tbody>" >>
    \o Concat([j \in 1..Len(invoice.lineItems) |-> MarkupRow(invoice, invoice.lineItems[j])])
    \o << "</tbody>", "</table>", "</body>", "</html>" >>

\* Line items: one with every field, one with the optional fields empty,
\* a line break in its description and no amounts.
ExportedItems ==
    { [sku |-> <<"S", "1">>, description |-> <<"B", "o", "l", "t">>,
       glCategory |-> <<"C", "O", "G", "S">>,
       quantity |-> 200, unitPrice |-> 625, totalAmount |-> 1250],
      [sku |-> << >>, description |-> <<"N", "u", "t", "\n", "M", "4">>,
       glCategory |-> << >>,
       quantity |-> 100, unitPrice |-> 0, totalAmount |-> 0] }

\* Header fields: a plain vendor, a vendor with a comma and a quote in its
\* name, and a credit note of the first vendor with no document type and
\* no currency symbol.
ExportedHeaders ==
    { [documentType |-> <<"I", "n", "v", "o", "i", "c", "e">>,
       vendorName |-> <<"A", "c", "m", "e">>,
       invoiceDate |-> <<"2", "0", "2", "4", "-", "0", "1", "-", "0", "5">>,
       totalAmount |-> 1250, currencySymbol |-> <<"$">>],
      [documentType |-> <<"I", "n", "v", "o", "i", "c", "e">>,
       vendorName |-> <<"A", ",", "\"", "B", "\"">>,
       invoiceDate |-> <<"2", "0", "2", "4", "-", "0", "2", "-", "1", "0">>,
       totalAmount |-> 4000, currencySymbol |-> <<"R", "$">>],
      [documentType |-> << >>,
       vendorName |-> <<"A", "c", "m", "e">>,
       invoiceDate |-> <<"2", "0", "2", "3", "-", "1", "2", "-", "3", "1">>,
       totalAmount |-> 0 - 505, currencySymbol |-> << >>] }

\* The sequences of at most n elements of S.
UpTo(S, n) == UNION { [1..k -> S] : k \in 0..n }

ExportedDocs ==
    { h @@ [lineItems |-> items] :
        h \in ExportedHeaders, items \in UpTo(ExportedItems, MaxLineItems) }

InitCsv ==
    /\ Resting
    /\ input \in UpTo(ExportedDocs, MaxExported)
    /\ output = << >>

\* generateCSV applied to a list of records, format 'csv'.
ApplyGenerateCSV ==
    /\ output = << >>
    /\ output' = << generateCSV(input, "csv") >>
    /\ UNCHANGED << beside, input >>

SpecCsv == InitCsv /\ [][ApplyGenerateCSV]_vars

\* --- the exports of the interface (App.tsx)
\* Records of the extraction with the properties its schema does not
\* require left out: no invoiceDate and no documentType, and a line item
\* with no sku and no glCategory.
SparseItems ==
    { [description |-> <<"N", "u", "t">>,
       quantity |-> 100, unitPrice |-> 250, totalAmount |-> 250] }

SparseDocs ==
    { [vendorName |-> <<"K", "l", "e", "i", "n">>, totalAmount |-> 250,
       currencySymbol |-> <<"$">>, lineItems |-> items] :
        items \in UpTo(SparseItems \cup ExportedItems, 1) }

\* The formats of the export selector.
ExportFormats == {"csv", "quickbooks", "xero", "sap", "excel"}

InitExport ==
    /\ Resting
    /\ input \in [data : UpTo(ExportedDocs \cup SparseDocs, MaxExported),
                  format : ExportFormats, west : BOOLEAN]
    /\ output = << >>

\* handleExportAll, and handleDownloadCSV for a list of one record: the
\* text of the download is generateCSV of the list in the selected format.
HandleExportAll ==
    /\ output = << >>
    /\ input.data # << >>
    /\ output' = << generateCSV(input.data, input.format) >>
    /\ UNCHANGED << beside, input >>

\* handleDownloadExcel, the first record of the list being the active one.
HandleDownloadExcel ==
    /\ output = << >>
    /\ input.data # << >>
    /\ output' = << tableHtml(input.data[1]) >>
    /\ UNCHANGED << beside, input >>

NextExport == HandleExportAll \/ HandleDownloadExcel

SpecExport == InitExport /\ [][NextExport]_vars

\* ------ learned corrections (SessionSidebar.tsx, services/geminiService.ts)
\* `learned` is the object stored under 'ester_learned_corrections', as the
\* sequence of its properties in the order Object.keys lists them.
\* What a category correction and an extraction leave alone.
unlearned == << pipeline, targetLanguage, isTranslating, translations, targetCurrency,
               timers >>

\* A property key that is an array index: a canonical number below 2^32 - 1.
\* Object.keys lists these first, in ascending order, and the other keys
\* after them in the order they were created.
IsArrayIndex(key) ==
    /\ Len(key) \in 1..10
    /\ \A k \in 1..Len(key) : key[k] \in Digits
    /\ Len(key) > 1 => key[1] # "0"
    /\ Len(key) = 10 =>
           \/ Decimal(SubSeq(key, 1, 9)) < 429496729
           \/ Decimal(SubSeq(key, 1, 9)) = 429496729 /\ Decimal(<< key[10] >>) < 5

\* The numeric order of two array indexes: the shorter text, and of two
\* texts of one length the one with the smaller digit where they first differ.
Below(a, b) ==
    \/ Len(a) < Len(b)
    \/ /\ Len(a) = Len(b)
       /\ \E k \in 1..Len(a) :
              /\ SubSeq(a, 1, k - 1) = SubSeq(b, 1, k - 1)
              /\ Decimal(<< a[k] >>) < Decimal(<< b[k] >>)

\* The place in key order of a key that is not stored yet.
PlaceOf(corrections, key) ==
    IF IsArrayIndex(key)
    THEN 1 + Cardinality({ j \in 1..Len(corrections) :
                            /\ IsArrayIndex(corrections[j].key)
                            /\ Below(corrections[j].key, key) })
    ELSE Len(corrections) + 1

\* learned[keyword] = value: a stored key keeps its place.
Assigned(corrections, key, value) ==
    IF \E j \in 1..Len(corrections) : corrections[j].key = key
    THEN [j \in 1..Len(corrections) |->
            IF corrections[j].key = key
            THEN [key |-> key, value |-> value] ELSE corrections[j]]
    ELSE LET p == PlaceOf(corrections, key)
         IN  SubSeq(corrections, 1, p - 1) \o << [key |-> key, value |-> value] >>
             \o SubSeq(corrections, p, Len(corrections))

\* description.split(' ')
RECURSIVE splitAtBlanks(_)
splitAtBlanks(t) ==
    IF \A i \in 1..Len(t) : t[i] # " " THEN << t >>
    ELSE LET c == CHOOSE i \in 1..Len(t) : t[i] = " " /\ \A j \in 1..(i - 1) : t[j] # " "
         IN  << SubSeq(t, 1, c - 1) >> \o splitAtBlanks(SubSeq(t, c + 1, Len(t)))

\* .filter(w => w.length > 4)
LongWords(description) == SelectSeq(splitAtBlanks(description), LAMBDA w : Len(w) > 4)

\* The learning trigger of handleLineItemChange: the first long word of the
\* description, in lower case, is stored with the category.
Learning(corrections, description, value) ==
    IF Len(LongWords(description)) > 0
    THEN Assigned(corrections, toLowerCase(LongWords(description)[1]), value)
    ELSE corrections

\* applyLearnedCorrections on the stored object `corrections`: the first key,
\* in key order, that the description contains in lower case.
Matched(corrections, item) ==
    { j \in 1..Len(corrections) :
        includes(toLowerCase(item.description), toLowerCase(corrections[j].key)) }

CorrectedBy(corrections, items) ==
    [k \in 1..Len(items) |->
        IF Matched(corrections, items[k]) # {}
        THEN LET m == CHOOSE j \in Matched(corrections, items[k]) :
                          \A i \in Matched(corrections, items[k]) : j <= i
             IN  [items[k] EXCEPT !.glCategory = corrections[m].value,
                                  !.glReasoning = << corrections[m].key,
                                                     corrections[m].value >>,
                                  !.glConfidence = 99]
        ELSE items[k]]

applyLearnedCorrections(items) == CorrectedBy(learned, items)

\* Categories the user chooses and descriptions of line items: with a long
\* first word, with a later long word, without a long word, with a number
\* as its first long word, and with a long word that contains another.
Categories == {"Materials", "Equipment"}
LearnedDescriptions ==
    {<<"S", "t", "e", "e", "l", " ", "f", "r", "a", "m", "e">>,
     <<"F", "r", "a", "m", "e", " ", "s", "t", "e", "e", "l">>,
     <<"P", "i", "p", "e">>,
     <<"1", "0", "0", "2", "4", " ", "S", "t", "e", "e", "l">>,
     <<"S", "T", "E", "E", "L", "W", "O", "R", "K">>}

\* A line item as the model returns it, before any correction.
ModelItem(description) ==
    [description |-> description, glCategory |-> "Uncategorized",
     glReasoning |-> << >>, glConfidence |-> 80]

\* The record in the editor has two line items.
InitLearning ==
    /\ Resting
    /\ input \in [lineItems : { << ModelItem(a), ModelItem(b) >> :
                                a \in LearnedDescriptions, b \in LearnedDescriptions }]
    /\ output = << >>

\* handleLineItemChange(index, 'glCategory', value)
CategoryChanged(index, value) ==
    /\ edits < MaxCorrections
    /\ index \in 1..Len(input.lineItems)
    /\ edits' = edits + 1
    /\ learned' = Learning(learned, input.lineItems[index].description, value)
    /\ input' = [input EXCEPT !.lineItems[index].glCategory = value]
    /\ UNCHANGED << unlearned, output >>

\* A live extraction returns a line item with this description: the
\* post-processing of extractInvoiceData applies the learned corrections.
ExtractLive(description) ==
    /\ output' = << applyLearnedCorrections(<< ModelItem(description) >>) >>
    /\ output' # output
    /\ UNCHANGED << unlearned, learned, edits, input >>

NextLearning ==
    \/ \E index \in 1..2 : \E value \in Categories : CategoryChanged(index, value)
    \/ \E description \in LearnedDescriptions : ExtractLive(description)

SpecLearning == InitLearning /\ [][NextLearning]_vars


\* ================================================================ claims
\* Record `id` is in history `hist`.
HasRecord(hist, id) == \E h \in 1..Len(hist) : hist[h].id = id

\* Two invoices are duplicates of each other: vendor names equal ignoring
\* case and surrounding blanks, dates equal, totals less than 0.01 apart.
SameInvoice(a, b) ==
    /\ trim(toLowerCase(a.vendorName)) = trim(toLowerCase(b.vendorName))
    /\ a.invoiceDate = b.invoiceDate
    /\ a.totalAmount - b.totalAmount < 10
    /\ b.totalAmount - a.totalAmount < 10

\* `after` is `before` without its element r.
Without(before, r, after) ==
    /\ Len(after) = Len(before) - 1
    /\ \A q \in 1..Len(after) : after[q] = before[IF q < r THEN q ELSE q + 1]

\* The position of the last file of `run` whose record was appended.
LastAppended(run) ==
    CHOOSE j \in Appended(run) : \A q \in Appended(run) : q <= j

\* C1: when the extraction of file k of a batch fails with QUOTA_EXCEEDED, every
\* file before k has been handled and the records of the non-duplicate ones are
\* in the session history (unless the user cleared it meanwhile), the run ends
\* there so that no file after k is extracted, the status is quota_cooldown and
\* the countdown is 60.
C1_QuotaErrorEndsRun ==
    [][\A r \in 1..MaxTasks :
          ExtractReject(r, "QUOTA_EXCEEDED") =>
              /\ Len(runs[r].log) = runs[r].i - 1
              /\ sessionHistory' = sessionHistory
              /\ ~runs[r].cleared =>
                    \A j \in Appended(runs[r]) : HasRecord(sessionHistory', runs[r].log[j])
              /\ Without(runs, r, runs')
              /\ processingState'.status = "quota_cooldown"
              /\ retryCountdown' = 60
      ]_vars

\* C1 witness: file 2 of a batch of two met the quota error after the record
\* of file 1 was appended.
C1_Witness ==
    /\ Status = "quota_cooldown"
    /\ retryCountdown = 60
    /\ processingState.consumed = {1}
    /\ Len(files) = 2
    /\ Len(sessionHistory) = 1
    /\ runs = << >>


C3_NoUnconfirmedDuplicates ==
    \A a, b \in 1..Len(sessionHistory) :
        (a < b /\ SameInvoice(sessionHistory[a], sessionHistory[b])) =>
            sessionHistory[a].forced

\* C4: at most one run of handleSanitize is in flight, and while one is the
\* status is processing or quota_cooldown, the statuses in which submission
\* is disabled.
C4_OneRunInFlight ==
    /\ Len(runs) <= 1
    /\ runs # << >> => Status \in {"processing", "quota_cooldown"}

\* C5: a tick of the cooldown timer lowers the countdown by exactly 1; the tick
\* that brings it to 0 calls handleSanitize once (one new run when there are
\* files), no other tick calls it, and in quota_cooldown nothing but that tick
\* starts a run.
C5_CountdownAndSingleRetry ==
    [][/\ CooldownTick =>
             /\ retryCountdown' = retryCountdown - 1
             /\ retryCountdown' >= 0
             /\ IF retryCountdown' = 0 /\ Len(files) > 0
                THEN /\ Len(runs') = Len(runs) + 1
                     /\ started' = started + 1
                     /\ runs'[Len(runs')].i = 1
                     /\ runs'[Len(runs')].pc = "extract"
                     /\ processingState'.status = "processing"
                ELSE /\ runs' = runs
                     /\ started' = started
                     /\ processingState' = processingState
       /\ (Status = "quota_cooldown" /\ started' # started) =>
             (retryCountdown = 1 /\ retryCountdown' = 0 /\ started' = started + 1)
      ]_vars

\* C5 witness: the countdown of a cooldown has reached 0 and the retry it
\* triggered is extracting (only a run the cooldown started has consumed files).
C5_Witness ==
    /\ retryCountdown = 0
    /\ Status = "processing"
    /\ Len(runs) = 1
    /\ runs[1].consumed # {}
    /\ runs[1].pc = "extract"

\* C6: the automatic retry after a quota cooldown never extracts a file whose
\* record the run that met the quota error had already appended.
C6_RetrySkipsConsumedFiles ==
    \A r \in 1..Len(runs) : runs[r].pc = "extract" => runs[r].i \notin runs[r].consumed

\* C7: a quota cooldown with nothing in flight always has its timer armed, so
\* that waiting brings the countdown to 0, the retry runs and the status leaves
\* quota_cooldown.
C7_CooldownRecoversByWaiting ==
    (Status = "quota_cooldown" /\ Tasks = 0) => retryCountdown > 0

\* C8: a user who abandons the batch during quota_cooldown (navigate home, new
\* invoice, clear all, history select) leaves quota_cooldown without starting
\* anything, and the cooldown timer, the only source of the automatic retry,
\* fires in status quota_cooldown only.
C8_AbandonCancelsRetry ==
    [][/\ ( /\ Status = "quota_cooldown"
            /\ \/ HandleNavigateHome
               \/ HandleNewInvoice
               \/ ConfirmClearAll
               \/ \E k \in 1..MaxIds : HandleHistorySelect(k) ) =>
             /\ processingState'.status \in {"idle", "complete"}
             /\ started' = started
             /\ Len(runs') = Len(runs)
             /\ nextId' = nextId
       /\ (Status # "quota_cooldown" /\ retryCountdown > 0) =>
             /\ ~CooldownTick
             /\ started' # started => (SanitizeClick \/ RetryClick
                                        \/ \E key \in ExampleKeys : HandleLoadExample(key))
      ]_vars

\* C8 witness: the batch was abandoned during a cooldown: the status is idle,
\* the files are gone and the countdown stands where the timer left it.
C8_Witness ==
    /\ Status = "idle"
    /\ retryCountdown \in 1..59
    /\ files = << >>
    /\ Tasks = 0

\* C9: when a run finishes its last file without an error having appended at
\* least one record, the active record is the last record the run appended.
C9_ActiveIsLastAppended ==
    [][\A r \in 1..MaxTasks, data \in ExtractionResults :
          (ExtractResolve(r, data) /\ runs[r].i = Len(runs[r].files)) =>
              IF sessionHistory' # sessionHistory
              THEN invoiceData' = Head(sessionHistory')
              ELSE Appended(runs[r]) # {} =>
                      invoiceData'.id = runs[r].log[LastAppended(runs[r])]
      ]_vars

\* C10: when the extraction of file k fails with a code other than
\* QUOTA_EXCEEDED the run ends there, the status is error with the message of
\* the code and the code itself (GENERIC when the error has none), the file
\* list and the countdown are untouched; the retry button then starts a run
\* over the file list from its first file.
C10_ErrorEndsRunAndRetryRestarts ==
    [][/\ \A r \in 1..MaxTasks, code \in ErrorCodes \ {"QUOTA_EXCEEDED"} :
             ExtractReject(r, code) =>
                 /\ Without(runs, r, runs')
                 /\ processingState'.status = "error"
                 /\ processingState'.errorCode = (IF code = "none" THEN "GENERIC" ELSE code)
                 /\ processingState'.message =
                        (CASE code = "READ_ERROR" -> "readError"
                           [] code = "INVALID_FILE" -> "fileTypeError"
                           [] OTHER -> "uploadError")
                 /\ files' = files
                 /\ retryCountdown' = retryCountdown
       /\ (RetryClick /\ Len(files) > 0) =>
             /\ files' = files
             /\ Len(runs') = Len(runs) + 1
             /\ runs'[Len(runs')].files = files
             /\ runs'[Len(runs')].i = 1
             /\ runs'[Len(runs')].pc = "extract"
             /\ processingState'.status = "processing"
      ]_vars

\* C10 witness: file 2 of a batch of two failed with READ_ERROR after the
\* record of file 1 was appended; the retry button is offered.
C10_Witness ==
    /\ Status = "error"
    /\ processingState.errorCode = "READ_ERROR"
    /\ processingState.message = "readError"
    /\ Len(files) = 2
    /\ Len(sessionHistory) = 1
    /\ invoiceData = NoInvoice
    /\ Tasks = 0


\* The position of record `id` in history `hist`.
PositionOf(hist, id) == CHOOSE h \in 1..Len(hist) : hist[h].id = id

\* C11: within one run the files are extracted in input order, one at a time:
\* when the extraction of file i is pending every file before i has been
\* appended or flagged and none after it, a resolved extraction moves the run
\* to the next file only, and the records a run appended stand in the session
\* history in that order, newest first.
C11_InputOrder ==
    /\ [](\A r \in 1..Len(runs) :
            /\ runs[r].i \in 1..Len(runs[r].files)
            /\ Len(runs[r].log) = (IF runs[r].pc = "extract" THEN runs[r].i - 1 ELSE runs[r].i)
            /\ \A j, k \in Appended(runs[r]) :
                  ( /\ j < k
                    /\ HasRecord(sessionHistory, runs[r].log[j])
                    /\ HasRecord(sessionHistory, runs[r].log[k]) ) =>
                       PositionOf(sessionHistory, runs[r].log[k])
                          < PositionOf(sessionHistory, runs[r].log[j]))
    /\ [][\A r \in 1..MaxTasks :
            /\ (\E data \in ExtractionResults : ExtractResolve(r, data)) =>
                  /\ sessionHistory' # sessionHistory =>
                        /\ Tail(sessionHistory') = sessionHistory
                        /\ Head(sessionHistory').id = nextId'
                  /\ Len(runs') = Len(runs) =>
                        /\ runs'[r].files = runs[r].files
                        /\ \/ runs'[r].i = runs[r].i /\ runs'[r].pc = "delay"
                           \/ runs'[r].i = runs[r].i + 1 /\ runs'[r].pc = "extract"
            /\ DelayResolve(r) =>
                  /\ runs'[r].i = runs[r].i + 1
                  /\ runs'[r].pc = "extract"
                  /\ sessionHistory' = sessionHistory
       ]_vars

\* C11 witness: one batch of two files is over and both records are in the
\* history, the record of file 2 first.
C11_Witness ==
    /\ started = 1
    /\ Tasks = 0
    /\ Len(sessionHistory) = 2
    /\ sessionHistory[1].id = 2
    /\ sessionHistory[2].id = 1
    /\ invoiceData = sessionHistory[1]

\* C12: every translation call is made on the record's originalLineItems and
\* never on the line items it displays; as long as no line item was edited,
\* the input of every call is the line items the record was first given.
C12_TranslatesFromOriginal ==
    \A c \in 1..Len(translations) :
        /\ translations[c].input = translations[c].invoice.originalLineItems
        /\ translations[c].input.via = << >>
        /\ edits = 0 => translations[c].input = Items(translations[c].invoice.id)

\* C12 witness: a call is in flight for a record that displays a translation,
\* so that the displayed and the original line items differ.
C12_Witness ==
    \E c \in 1..Len(translations) :
        /\ translations[c].invoice.language = "English"
        /\ translations[c].lang = "Spanish"
        /\ translations[c].invoice.lineItems # translations[c].invoice.originalLineItems
        /\ translations[c].invoice.lineItems.via = << "English" >>

\* The records the application holds: the active one and those of the history.
Records ==
    {sessionHistory[k] : k \in 1..Len(sessionHistory)}
        \cup (IF invoiceData = NoInvoice THEN {} ELSE {invoiceData})

\* C13: every record, active or in the history, whose language is "Original"
\* has lineItems equal to its originalLineItems; extraction, example loading,
\* edits, reverts and translation commits all preserve this.
C13_OriginalRecordsInSync ==
    \A d \in Records : d.language = "Original" => d.lineItems = d.originalLineItems

\* C13 witness: the line items of a record in its original language were
\* edited, and the edited record is the active one and is in the history.
C13_Witness ==
    /\ edits = 1
    /\ invoiceData # NoInvoice
    /\ invoiceData.language = "Original"
    /\ invoiceData.lineItems # Items(invoiceData.id)
    /\ \E k \in 1..Len(sessionHistory) : sessionHistory[k] = invoiceData

\* C14: a translation result that arrives when another record has become the
\* active one is not applied to it: the step that commits the result of a
\* call changes the active record only when the active record's id equals
\* the id of the record the call translated; the history entry of the
\* translated record is updated in either case.
C14_StaleResultNotApplied ==
    [][\A c \in 1..MaxCalls, ok \in BOOLEAN :
          (AutoTranslateResolve(c, ok) /\ invoiceData.id # translations[c].invoice.id)
              => /\ invoiceData' = invoiceData
                 /\ \A k \in 1..Len(sessionHistory) :
                        sessionHistory[k].id = translations[c].invoice.id
                            => sessionHistory'[k].language = translations[c].lang]_vars

\* C14 witness: record 1 was sent to translation, record 2 is the active one
\* and is untranslated, no call is left in flight, and the history entry of
\* record 1 carries the English translation.
C14_Witness ==
    /\ started = 1
    /\ translations = << >>
    /\ invoiceData # NoInvoice
    /\ invoiceData.id = 2
    /\ invoiceData.language = "Original"
    /\ invoiceData.lineItems = Items(2)
    /\ \E k \in 1..Len(sessionHistory) :
          /\ sessionHistory[k].id = 1
          /\ sessionHistory[k].language = "English"
          /\ sessionHistory[k].lineItems = Translated(Items(1), "English")

\* C16: when the translation collaborator fails, the record is left exactly
\* as it was before the translation: neither the active record nor its
\* history entry changes, and its language is not set to the target.
C16_FailureLeavesRecord ==
    [][\A c \in 1..MaxCalls :
          AutoTranslateResolve(c, FALSE)
              => /\ invoiceData.id = translations[c].invoice.id
                        => invoiceData' = invoiceData
                 /\ \A k \in 1..Len(sessionHistory) :
                        sessionHistory[k].id = translations[c].invoice.id
                            => sessionHistory'[k] = sessionHistory[k]]_vars

\* The calls in flight that translate the active record.
CallsForActive ==
    {c \in 1..Len(translations) : translations[c].invoice.id = invoiceData.id}

\* C17: at most one translation call is in flight for the active record;
\* changing the target language again while one runs starts no second call.
C17_OneTranslationInFlight == Cardinality(CallsForActive) <= 1

\* C15: handleTranslate of the variant commits its result only if the active
\* record's id still equals the id of the record it translated; a result
\* that arrives after another record became active never becomes the active
\* record.
C15_HandleTranslateGuarded ==
    [][\A c \in 1..MaxCalls, ok \in BOOLEAN :
          (HandleTranslateResolve(c, ok) /\ invoiceData.id # translations[c].invoice.id)
              => invoiceData' = invoiceData]_vars

\* C18: the display currency conversion is view-only. Changing the target
\* currency never changes the stored totalAmount, currencySymbol or line-item
\* amounts of any record, and while a converted view is shown the header's
\* total and currency inputs write nothing back.
C18_ConversionIsViewOnly ==
    [][/\ targetCurrency' # targetCurrency
            => invoiceData' = invoiceData /\ sessionHistory' = sessionHistory
       /\ \A value \in Amounts :
            (TotalInput(value) /\ isActuallyDifferent(invoiceData, targetCurrency))
                => invoiceData' = invoiceData /\ sessionHistory' = sessionHistory
       /\ \A value \in Symbols :
            (CurrencyInput(value) /\ isActuallyDifferent(invoiceData, targetCurrency))
                => invoiceData' = invoiceData /\ sessionHistory' = sessionHistory]_vars

\* C18 witness: a dollar record is shown converted to euro: the total the
\* header displays differs from the stored one, which is as extracted.
C18_Witness ==
    /\ targetCurrency = "EUR"
    /\ invoiceData # NoInvoice
    /\ invoiceData.currencySymbol = "$"
    /\ invoiceData.totalAmount \in ExtractedAmounts
    /\ isReadOnlyHeader(invoiceData, targetCurrency)
    /\ displayTotalAmount(invoiceData, targetCurrency) # invoiceData.totalAmount
    /\ displayCurrencySymbol(invoiceData, targetCurrency) # invoiceData.currencySymbol

\* C19: the duplicate predicate is symmetric: a stored record matches a
\* candidate exactly when the candidate, taken as the stored record, matches
\* it.
C19_DuplicateSymmetric ==
    output # << >> => (output[1].stored <=> output[1].candidate)

\* C19 witness: two records that differ in the case and padding of the
\* vendor name and in the total, by less than the tolerance, match.
C19_Witness ==
    /\ output # << >>
    /\ output[1].stored
    /\ input[1].vendorName # input[2].vendorName
    /\ input[1].totalAmount < input[2].totalAmount

\* The tier the flags call for: Low for missing metadata or an unsupported
\* currency, else Medium for zero prices or a low item count, else High.
Tier(flags) ==
    IF flags.missingMetadata \/ flags.unsupportedCurrency THEN "Low"
    ELSE IF flags.hasZeroPrices \/ flags.lowItemCount THEN "Medium"
    ELSE "High"

\* C20: the confidence score is Low exactly when missingMetadata or
\* unsupportedCurrency is set, otherwise Medium exactly when hasZeroPrices or
\* lowItemCount is set, otherwise High; unsupportedLanguage alone never
\* lowers it.
C20_ConfidenceTiers ==
    output # << >> => output[1].confidenceScore = Tier(output[1].validationFlags)

\* The record's language is in the allow-list, case-insensitively.
Allowed(language) ==
    \E lang \in SupportedLanguages : LowerName(lang) = LowerName(language)

\* C21: unsupportedLanguage is set exactly when the record's language is not
\* "Original", is not in the supported-language allow-list and the
\* languageConfidence is below 90; a confidence of 90 or more suppresses the
\* flag.
C21_LanguageFlagRule ==
    (output # << >> /\ input.language # "")
        => (output[1].validationFlags.unsupportedLanguage
                <=> /\ input.language # "Original"
                    /\ ~Allowed(input.language)
                    /\ input.languageConfidence < 90)

\* The symbol is a key of SYMBOL_MAP or a 3-letter code of CURRENCY_RATES.
Resolvable(symbol) == symbol \in {"$", "R$"} \/ HasRate(symbol)

\* C22: every record whose currencySymbol is neither a key of SYMBOL_MAP nor
\* a supported 3-letter code is flagged unsupportedCurrency and is Low.
C22_UnresolvedSymbolFlagged ==
    (output # << >> /\ ~Resolvable(input.currencySymbol))
        => /\ output[1].validationFlags.unsupportedCurrency
           /\ output[1].confidenceScore = "Low"

\* C23: assessing an assessed record gives the same validationFlags,
\* confidenceScore, hasSensitiveData and sensitiveDataTypes again.
C23_AssessmentIdempotent ==
    Len(output) = 2
        => /\ output[2].validationFlags = output[1].validationFlags
           /\ output[2].confidenceScore = output[1].confidenceScore
           /\ output[2].hasSensitiveData = output[1].hasSensitiveData
           /\ output[2].sensitiveDataTypes = output[1].sensitiveDataTypes

\* C23 witness: a record with a card number and a keyword in its
\* descriptions was assessed twice, and both times the description keyword
\* and the card number were reported and nothing else.
C23_Witness ==
    /\ Len(output) = 2
    /\ output[1].sensitiveDataTypes = << "Description PII", "Credit Card" >>
    /\ output[2].hasSensitiveData
    /\ output[2].validationFlags.unsupportedLanguage

C25_RateIdentity ==
    (output # << >> /\ getCurrencyCode(input[1]) = input[2])
        => output[1].num = 1 /\ output[1].den = 1

\* C25 witness: the rate from EUR to EUR was computed, for a code whose
\* table entry is not 1.
C25_Witness ==
    /\ output # << >>
    /\ input = << "EUR", "EUR" >>
    /\ RateOf("EUR") # RateOf("USD")

\* C26: for every pair of codes A and B of CURRENCY_RATES, the rate from A to
\* B multiplied by the rate from B to A is 1 over the rationals.
C26_RateRoundTrip ==
    (Len(output) = 2 /\ HasRate(input[1]) /\ HasRate(input[2]))
        => output[1].num * output[2].num = output[1].den * output[2].den

\* C26 witness: the rates between EUR and MXN were computed in both
\* directions and neither is 1.
C26_Witness ==
    /\ Len(output) = 2
    /\ input = << "EUR", "MXN" >>
    /\ output[1].num # output[1].den
    /\ output[2].num # output[2].den

\* C27: when the source symbol or the target code has no entry in
\* CURRENCY_RATES, the multiplier getExchangeRate returns is 1.
C27_UnknownYieldsOne ==
    (output # << >> /\ (~HasRate(getCurrencyCode(input[1])) \/ ~HasRate(input[2])))
        => output[1].num = output[1].den

\* C28: a line item whose coerced unitPrice is 0 while quantity and
\* totalAmount are positive gets unitPrice = totalAmount / quantity rounded
\* to 2 decimals (quantity 2 and total 40 give 20), and a line item whose
\* totalAmount is 0 while quantity and unitPrice are positive gets
\* totalAmount = quantity * unitPrice rounded to 2 decimals.
C28_BackFill ==
    output # << >>
        => LET unitPrice == cleanNumber(input.unitPrice)
               totalAmount == cleanNumber(input.totalAmount)
               quantity == cleanNumber(input.quantity)
           IN  /\ (unitPrice = 0 /\ quantity > 0 /\ totalAmount > 0)
                    => /\ 2 * Abs(output[1].unitPrice * quantity - 100 * totalAmount)
                              <= quantity
                       /\ output[1].totalAmount = totalAmount
               /\ (totalAmount = 0 /\ quantity > 0 /\ unitPrice > 0)
                    => /\ 2 * Abs(100 * output[1].totalAmount - quantity * unitPrice) <= 100
                       /\ output[1].unitPrice = unitPrice
               /\ (unitPrice = 0 /\ quantity = 200 /\ totalAmount = 4000)
                    => output[1].unitPrice = 2000

\* C28 witness: a total of 20.00 over a quantity of 3 with no unit price was
\* back-filled with 6.67.
C28_Witness ==
    /\ output # << >>
    /\ cleanNumber(input.unitPrice) = 0
    /\ cleanNumber(input.quantity) = 300
    /\ cleanNumber(input.totalAmount) = 2000
    /\ output[1].unitPrice = 667

\* C29: a line item's nonzero unit price is never silently overwritten:
\* translation and the return to the original language leave the stored
\* amounts of every record as they are; only the user's edit changes them.
C29_AmountsKept ==
    [][(~\E field \in EditedFields : HandleInvoiceChange(field))
          => \A k \in 1..Len(sessionHistory) : \A j \in 1..Len(sessionHistory') :
                sessionHistory'[j].id = sessionHistory[k].id
                    => sessionHistory'[j].lineItems.unitPrice
                           = sessionHistory[k].lineItems.unitPrice]_vars

\* The places of a text where the separator stands outside quotes.
Cuts(t, sep) ==
    { i \in 1..Len(t) :
        /\ t[i] = sep
        /\ Cardinality({ k \in 1..(i - 1) : t[k] = "\"" }) % 2 = 0 }

\* The pieces of a text between the separators that stand outside quotes.
RECURSIVE Split(_, _)
Split(t, sep) ==
    IF Cuts(t, sep) = {} THEN << t >>
    ELSE LET c == CHOOSE i \in Cuts(t, sep) : \A j \in Cuts(t, sep) : i <= j
         IN  << SubSeq(t, 1, c - 1) >> \o Split(SubSeq(t, c + 1, Len(t)), sep)

\* A text with its doubled quotes read as one.
RECURSIVE Halved(_)
Halved(s) ==
    IF s = << >> THEN << >>
    ELSE IF Len(s) >= 2 /\ s[1] = "\"" /\ s[2] = "\"" THEN << "\"" >> \o Halved(Tail(Tail(s)))
    ELSE << Head(s) >> \o Halved(Tail(s))

\* The content of a cell, read without its wrapping quotes.
Plain(cell) ==
    IF Len(cell) >= 2 /\ cell[1] = "\"" /\ cell[Len(cell)] = "\""
    THEN Halved(SubSeq(cell, 2, Len(cell) - 1))
    ELSE cell

\* The << record, line item >> places of a list in record order and then
\* line-item order.
RECURSIVE Places(_, _)
Places(data, i) ==
    IF i > Len(data) THEN << >>
    ELSE [j \in 1..Len(data[i].lineItems) |-> << i, j >>] \o Places(data, i + 1)

\* The sum of the line-item counts of a list of records.
RECURSIVE LineItemCount(_)
LineItemCount(data) ==
    IF data = << >> THEN 0 ELSE Len(Head(data).lineItems) + LineItemCount(Tail(data))

\* C30: the generic CSV export of a list of records is one header row and
\* then one data row per line item, as many as the sum of the records'
\* line-item counts, in record order then line-item order; every data row
\* has the vendor, date, total and currency (an empty symbol is written as
\* '$') of the record its line item belongs to.  Rows and cells are read as
\* CSV: a line break or comma inside quotes does not end a row or cell.
C30_RowPerLineItem ==
    output # << >> =>
        LET rows == Split(output[1], "\n")
            places == Places(input, 1)
        IN  /\ Len(rows) = 1 + LineItemCount(input)
            /\ Len(places) = LineItemCount(input)
            /\ Split(rows[1], ",") = headers
            /\ \A k \in 1..Len(places) :
                   LET doc == input[places[k][1]]
                       item == doc.lineItems[places[k][2]]
                       cells == Split(rows[k + 1], ",")
                   IN  /\ Len(cells) = Len(headers)
                       /\ Plain(cells[2]) = doc.vendorName
                       /\ cells[3] = doc.invoiceDate
                       /\ parseFloat(cells[4]) = doc.totalAmount
                       /\ cells[5] = (IF doc.currencySymbol = << >> THEN << "$" >>
                                      ELSE doc.currencySymbol)
                       /\ Plain(cells[6]) = item.sku
                       /\ Plain(cells[7]) = item.description

\* C30 witness: two records of different vendors with two line items each
\* have been exported, four data rows under one header row.
C30_Witness ==
    /\ output # << >>
    /\ Len(input) = 2
    /\ input[1].vendorName # input[2].vendorName
    /\ Len(input[1].lineItems) = 2
    /\ Len(input[2].lineItems) = 2
    /\ input[1].lineItems[1] # input[1].lineItems[2]
    /\ Len(Split(output[1], "\n")) = 5

\* C31: in every export format a missing optional property (sku,
\* invoiceDate, documentType, glCategory) is written as the empty text: the
\* text of an export never contains "undefined" or "NaN".
C31_MissingWrittenEmpty ==
    output # << >> =>
        /\ ~includes(output[1], <<"u", "n", "d", "e", "f", "i", "n", "e", "d">>)
        /\ ~includes(output[1], <<"N", "a", "N">>)

\* C39: every record of the list passed to generateCSV is represented in
\* the text, in every format: at least one data row carries the vendor
\* name of the record, also for a record with no line items.
C39_EveryRecordHasRow ==
    [][HandleExportAll =>
          LET rows == Split(output'[1], "\n")
          IN  \A i \in 1..Len(input.data) :
                  \E k \in 2..Len(rows) :
                      includes(rows[k], IF input.format = "sap"
                                        THEN input.data[i].vendorName
                                        ELSE Doubled(input.data[i].vendorName))]_vars

\* C32: between two consecutive extraction calls of one batch run the
\* inter-item delay is taken: when the extraction of a file that is not the
\* last of the batch resolves, appended or flagged as a duplicate, the run
\* waits before it extracts the next file.
C32_DelayBetweenExtractions ==
    [][\A r \in 1..Len(runs) : \A data \in ExtractionResults :
           (ExtractResolve(r, data) /\ runs[r].i < Len(runs[r].files))
               => runs'[r].pc = "delay"]_vars

\* C36: while the status is error or quota_cooldown the message is the one
\* the catch block set: a progress-message timer of a single-file run that
\* fires in such a state leaves the message as it is.
C36_TimersKeepErrorMessage ==
    [][\A k \in 1..Len(timers) :
           (ProgressTimeout(k) /\ Status \in {"error", "quota_cooldown"})
               => processingState'.message = processingState.message]_vars

\* C37: a duplicate candidate stays available until the user confirms or
\* cancels it: while a candidate is shown, no step other than
\* confirmDuplicate and cancelDuplicate removes or replaces it; a later
\* duplicate of the batch does not discard it.
C37_CandidateKept ==
    [][duplicateWarning.show =>
           \/ duplicateWarning' = duplicateWarning
           \/ ConfirmDuplicate
           \/ CancelDuplicate]_vars

\* C33: the active record, if there is one, is in the session history and
\* is identical to every history entry with its id.
C33_ActiveInHistory ==
    invoiceData # NoInvoice =>
        /\ HasRecord(sessionHistory, invoiceData.id)
        /\ \A h \in 1..Len(sessionHistory) :
               sessionHistory[h].id = invoiceData.id => sessionHistory[h] = invoiceData

\* C33 witness: two records are in the history; the active one shows a
\* committed English translation of line items the user has edited.
C33_Witness ==
    /\ invoiceData # NoInvoice
    /\ edits = 1
    /\ translations = << >>
    /\ Len(sessionHistory) = 2
    /\ invoiceData.language = "English"
    /\ invoiceData.lineItems.via = << "English" >>
    /\ invoiceData.lineItems # Translated(Items(invoiceData.id), "English")
    /\ \E h \in 1..Len(sessionHistory) : sessionHistory[h] = invoiceData

\* C34: no lost update on translation: when the result of a translation of
\* the active record is committed, what the user typed into the record
\* while the call was in flight is still there: the commit leaves the
\* record's originalLineItems and the unit price of its line items as the
\* edit left them.
C34_EditSurvivesCommit ==
    [][\A c \in 1..MaxCalls, ok \in BOOLEAN :
           (/\ AutoTranslateResolve(c, ok)
            /\ invoiceData # NoInvoice
            /\ invoiceData.id = translations[c].invoice.id)
               => /\ invoiceData'.originalLineItems = invoiceData.originalLineItems
                  /\ invoiceData'.lineItems.unitPrice = invoiceData.lineItems.unitPrice]_vars

\* C35: originalLineItems of a record only ever holds untranslated content:
\* in every record, active or in the history, originalLineItems is text
\* that went through no translation.
C35_OriginalUntranslated ==
    \A d \in Records : d.originalLineItems.via = << >>

\* C38: the stored confidenceScore and validationFlags of a record are what
\* assessExtractionQuality computes from its current content, also after the
\* user has edited the vendor name, the total, the currency or the line
\* items.
C38_AssessmentCurrent ==
    Len(output) = 1
        => /\ output[1].validationFlags = Flags(output[1])
           /\ output[1].confidenceScore = Score(Flags(output[1]))

\* C40: after the user sets the category of a line item whose description has
\* a word longer than 4 characters, an extraction that returns a line item
\* with the same description gets that category with glConfidence 99,
\* whatever corrections were stored before.
C40_LearnedRoundTrip ==
    [][\A index \in 1..2 : \A value \in Categories :
          CategoryChanged(index, value)
              /\ Len(LongWords(input.lineItems[index].description)) > 0
          => LET description == input.lineItems[index].description
                 item == CorrectedBy(learned', << ModelItem(description) >>)[1]
             IN  item.glCategory = value /\ item.glConfidence = 99]_vars

====
